---- MODULE Spec2Model ----
(***************************************************************************)
(* Liquidation bot pipeline: Fetcher -> Checker -> Liquidator -> reporter. *)
(* The Checker (tradersChecker.ts) and the Liquidator                      *)
(* (tradersLiquidator.ts) are translated statement by statement; every     *)
(* action is one run of a handler between two suspension points (await /   *)
(* yield) of the single-threaded event loop.                               *)
(***************************************************************************)
EXTENDS Integers, Sequences, FiniteSets, TLC

\* ------------------------------------------------------------------ bounds
MaxTime == 2
MaxFetches == 2
MaxPasses == 2
MaxLiquidations == 2
MaxCheckFailures == 1
MaxRecheckFailures == 2
MaxStarts == 2
MaxStops == 2
MaxJoins == 2
MaxFailures == 1

\* ------------------------------------------------------------ configuration
\* maxTradersPerLiquidationCheck, the chunkSize of the Check Filter
ChunkSize == 1

\* liquidation-retry-interval, in seconds (its default)
RetryIntervalSec == 1

\* the providers a filter can be built for: the primary one and one support
Filters == {"primary", "support"}

Traders == {"t1", "t2"}

\* own enumerable properties of a CheckError object, in declaration order
ErrFields == <<"chunk", "offset", "total", "cause">>

ErrKeys == {ErrFields[i] : i \in 1..Len(ErrFields)}

Keys == Traders \cup ErrKeys

\* trader lists the Fetcher can deliver
FetchLists == {<<>>, <<"t1">>, <<"t2">>, <<"t1", "t2">>}

\* the filter on its own: the largest chunk size, the longest list, the traders
MaxChunkSize == 3
MaxInput == 4
Addresses == {"t1", "t2", "t3", "t4"}

\* the lists of distinct traders a call of the filter may get
FilterInputs ==
    UNION {{s \in [1..n -> Addresses] : \A i, j \in 1..n : i # j => s[i] # s[j]} :
              n \in 0..MaxInput}

\* what a provider may throw
Causes == {"timeout", "revert"}

\* JavaScript undefined and null as last-checked-at values; Date.now() > 0
Undefined == -1
Null == 0

VARIABLES
    now,                 \* Date.now()
    traders,             \* Checker: the object traders, as its entries in key order
    checker,             \* Checker: per filter, the position of its generator
    checkerOut,          \* Checker: the PassThrough liquidatableTraders
    liquidatableTraders, \* Liquidator: the Set, in insertion order
    liquidator,          \* Liquidator: the position of liquidationsGenerator, its timer
    recheck,             \* Liquidator: the latest filterNonLiquidatableTraders call
    orphans,             \* Liquidator: filter tasks still running of earlier such calls
    events,              \* botEventEmitter: the "report" events emitted so far
    filters,             \* the liquidatableTradersFilters both processors were started with
    left,                \* what the environment may still do within the bounds
    run,                 \* Check Filter: one call of the filter on its own
    bot,                 \* bot.ts: isRunning, the abort signal, the start and stop calls
    eventsIterator       \* bot.ts: an iterator of getEventsIterator() and its consumer

vars == <<now, traders, checker, checkerOut, liquidatableTraders, liquidator,
          recheck, orphans, events, filters, left, run,
          bot, eventsIterator>>

\* ------------------------------------------------------------------ helpers
SeqSet(s) == {s[i] : i \in 1..Len(s)}

RECURSIVE Without(_, _)
Without(s, S) ==
    IF s = <<>> THEN <<>>
    ELSE IF Head(s) \in S THEN Without(Tail(s), S)
         ELSE <<Head(s)>> \o Without(Tail(s), S)

\* Set.prototype.add for every element of list, in order
RECURSIVE AddAll(_, _)
AddAll(s, list) ==
    IF list = <<>> THEN s
    ELSE AddAll(IF Head(list) \in SeqSet(s) THEN s ELSE Append(s, Head(list)),
                Tail(list))

Min(a, b) == IF a < b THEN a ELSE b

\* variant: a last chunk shorter than chunkSize is left out
FullChunks(list, chunkSize) == Len(list) \div chunkSize

\* chunk(traders, chunkSize).length
ChunksCount(list, chunkSize) == (Len(list) + chunkSize - 1) \div chunkSize

\* chunk(traders, chunkSize)[i], i from 0
ChunkAt(list, chunkSize, i) ==
    SubSeq(list, i * chunkSize + 1, Min((i + 1) * chunkSize, Len(list)))

\* lodash chunk(list, ChunkSize): the number of chunks and the i-th one, 0-based
NumChunks(list) == ChunksCount(list, ChunkSize)

Chunk(list, i) == ChunkAt(list, ChunkSize, i)

\* traders[key]
Get(m, key) ==
    IF \E i \in 1..Len(m) : m[i].k = key
    THEN (CHOOSE e \in SeqSet(m) : e.k = key).at
    ELSE Undefined

\* traders[key] = at
Put(m, key, at) ==
    IF \E i \in 1..Len(m) : m[i].k = key
    THEN [i \in 1..Len(m) |-> IF m[i].k = key THEN [k |-> key, at |-> at] ELSE m[i]]
    ELSE Append(m, [k |-> key, at |-> at])

\* Object.keys(traders)
KeysOf(m) == [i \in 1..Len(m) |-> m[i].k]

Event(type, kind, list) == [type |-> type, kind |-> kind, traders |-> list]

\* the events this step emits
NewEvents == SubSeq(events', Len(events) + 1, Len(events'))

\* -------------------------------------------------------- events iterator
\* no consumer has called next() of an iterator of getEventsIterator() yet
NoIterator == [pc |-> "off", unconsumedEvents |-> <<>>, got |-> <<>>, from |-> 0]

\* variant: the listener keeps only the events of the latest emitting step
KeepLatestOnly(it, new) ==
    IF it.pc = "on" /\ new # <<>> THEN [it EXCEPT !.unconsumedEvents = new] ELSE it

\* botEventEmitter.emit("report", event) for every event of new: the listener
\* of on(botEventEmitter, "report") puts it behind the unconsumed ones
OnReport(it, new) ==
    IF it.pc = "on" THEN [it EXCEPT !.unconsumedEvents = @ \o new] ELSE it

\* variant: emit waits until the consumer has taken what is stored for it
EmitWhenConsumed(it) == it.unconsumedEvents = <<>>

\* botEventEmitter.emit("report", event) calls the listeners and returns: it
\* awaits nothing, whatever on() has stored for its consumer
EmitReturns(it) == TRUE

\* botEventEmitter.removeAllListeners(): the listener of on() is gone, what it
\* has stored stays
RemoveAllListeners(it) == IF it.pc = "on" THEN [it EXCEPT !.pc = "removed"] ELSE it

\* ------------------------------------------------------------------ Checker
\* saveActiveTraders: traders = fromEntries(activeTraders.map(t => [t, traders[t] ?? null]))
SaveActiveTraders(m, activeTraders) ==
    [i \in 1..Len(activeTraders) |->
        [k |-> activeTraders[i],
         at |-> IF Get(m, activeTraders[i]) = Undefined THEN Null
                ELSE Get(m, activeTraders[i])]]

\* variant: a result as old as the last applied one is not taken for stale
IsStaleOnlyIfOlder(traderLastCheckedAt, checkedAt) ==
    traderLastCheckedAt > 0 /\ traderLastCheckedAt > checkedAt

\* traderLastCheckedAt && traderLastCheckedAt >= checkedAt
IsStale(traderLastCheckedAt, checkedAt) ==
    traderLastCheckedAt > 0 /\ traderLastCheckedAt >= checkedAt

\* the loop over Object.entries(checkedTraders): acc is
\* [traders, newLiquidatableTraders, hadNewData]
RECURSIVE ApplyEntries(_, _, _)
ApplyEntries(acc, entries, checkedAt) ==
    IF entries = <<>> THEN acc
    ELSE LET e == Head(entries) IN
         IF IsStale(Get(acc.traders, e.k), checkedAt)
         THEN ApplyEntries(acc, Tail(entries), checkedAt)
         ELSE ApplyEntries(
                [traders |-> Put(acc.traders, e.k, checkedAt),
                 newLiquidatableTraders |->
                     IF e.v THEN Append(acc.newLiquidatableTraders, e.k)
                     ELSE acc.newLiquidatableTraders,
                 hadNewData |-> TRUE],
                Tail(entries), checkedAt)

\* zipObject(chunkOfTraders, areLiquidatable) as its entries
ZipObject(chunkOfTraders, areLiquidatable) ==
    [i \in 1..Len(chunkOfTraders) |-> [k |-> chunkOfTraders[i], v |-> areLiquidatable[i]]]

\* Object.entries(new CheckError(chunk, chunkIndex * chunkSize, traders.length, error)),
\* each value by its truthiness
CheckErrorEntries(chunkIndex, total) ==
    <<[k |-> "chunk", v |-> TRUE],
      [k |-> "offset", v |-> chunkIndex * ChunkSize # 0],
      [k |-> "total", v |-> total # 0],
      [k |-> "cause", v |-> TRUE]>>

\* variant: the list is yielded only when it is not empty
YieldsWhenNotEmpty(hadNewData, newLiquidatableTraders) ==
    newLiquidatableTraders # <<>>

\* if (hadNewData) yield newLiquidatableTraders
YieldsList(hadNewData, newLiquidatableTraders) == hadNewData

\* what one result of the filter makes the generator yield, and the new traders:
\* a CheckError is yielded and then treated like a result object
CheckerStep(m, c, ok, areLiquidatable) ==
    LET chunkOfTraders == Chunk(c.snap, c.idx)
        entries == IF ok THEN ZipObject(chunkOfTraders, areLiquidatable)
                   ELSE CheckErrorEntries(c.idx, Len(c.snap))
        r == ApplyEntries([traders |-> m, newLiquidatableTraders |-> <<>>,
                           hadNewData |-> FALSE], entries, c.at)
    IN [traders |-> r.traders,
        yielded |-> (IF ok THEN <<>> ELSE <<[err |-> TRUE, list |-> chunkOfTraders]>>)
                    \o (IF YieldsList(r.hadNewData, r.newLiquidatableTraders)
                        THEN <<[err |-> FALSE, list |-> r.newLiquidatableTraders]>>
                        ELSE <<>>)]

\* variant: the event resolves the once() of one generator only
WakeFirstOnly(cs) ==
    [f \in Filters |->
        IF cs[f].pc = "waiting" /\ (f = "primary" \/ cs["primary"].pc # "waiting")
        THEN [cs[f] EXCEPT !.pc = "woken"]
        ELSE cs[f]]

\* tradersEvents.emit("gotActiveTraders") resolves every pending once()
WakeCheckers(cs) ==
    [f \in Filters |-> IF cs[f].pc = "waiting" THEN [cs[f] EXCEPT !.pc = "woken"]
                       ELSE cs[f]]

\* the streams of the pipeline are destroyed: by the abort signal or by an error
\* that a stage has thrown
Destroyed == bot.aborted \/ bot.failed

\* Run to completion: a continuation that is already scheduled (a resolved
\* once(), data travelling down the pipeline, the loop head of the Liquidator)
\* runs before the next timer or I/O callback of the event loop is taken.
Pending ==
    \/ checkerOut # <<>>
    \/ \E f \in Filters : checker[f].pc = "woken" /\ checker[f].n > 0
    \/ liquidator.pc = "woken" /\ left.liq > 0
    \/ liquidator.pc = "top" /\ (liquidatableTraders = <<>> \/ left.liq > 0)
    \/ bot.stop > 0 /\ bot.ended
    \/ bot.join > 0 /\ bot.ended

\* Fetcher yields a trader list; the adapter reports it and writes it to the Checker
FetchDeliver(activeTraders) ==
    /\ EmitReturns(eventsIterator)
    /\ ~Destroyed
    /\ left.fetch > 0
    /\ ~Pending
    /\ left' = [left EXCEPT !.fetch = @ - 1]
    /\ events' = Append(events, Event("tradersFetched", "", activeTraders))
    /\ traders' = SaveActiveTraders(traders, activeTraders)
    /\ checker' = IF traders' # <<>> THEN WakeCheckers(checker) ELSE checker
    /\ UNCHANGED <<now, checkerOut, liquidatableTraders, liquidator, recheck,
                   orphans, filters, run, bot>>
    /\ eventsIterator' = OnReport(eventsIterator, NewEvents)

\* variant: a FetchError is written to the Checker as an empty trader list
FetchErrorAsEmptyList(m) == SaveActiveTraders(m, <<>>)

\* the traders after the adapter got a FetchError: its branch has no yield, so
\* saveActiveTraders is not called
FetchErrorNotForwarded(m) == m

\* Fetcher yields a FetchError; the adapter reports it and forwards nothing
FetchFail ==
    /\ EmitReturns(eventsIterator)
    /\ ~Destroyed
    /\ left.fetch > 0
    /\ ~Pending
    /\ left' = [left EXCEPT !.fetch = @ - 1]
    /\ events' = Append(events, Event("error", "FetchError", <<>>))
    /\ traders' = FetchErrorNotForwarded(traders)
    /\ UNCHANGED <<now, checker, checkerOut, liquidatableTraders,
                   liquidator, recheck, orphans, filters, run, bot>>
    /\ eventsIterator' = OnReport(eventsIterator, NewEvents)

\* activeTraders = Object.keys(traders); checkedAt = Date.now(); first query issued
StartPass(f, t) ==
    /\ checker[f].n > 0
    /\ t \in {now, now + 1}
    /\ t <= MaxTime
    /\ now' = t
    /\ checker' = [checker EXCEPT ![f] =
            [pc |-> IF traders = <<>> THEN "sleep" ELSE "query",
             snap |-> KeysOf(traders), at |-> t, idx |-> 0, n |-> @.n - 1]]

\* the generator continues after await once(tradersEvents, "gotActiveTraders")
CheckerResume(f) ==
    /\ checker[f].pc = "woken"
    /\ \E t \in {now, now + 1} : StartPass(f, t)
    /\ UNCHANGED <<traders, checkerOut, liquidatableTraders, liquidator, recheck,
                   orphans, events, filters, run, bot, left,
                   eventsIterator>>

\* the recheck interval has elapsed and the traders are not empty: next pass
CheckerLoop(f) ==
    /\ checker[f].pc = "sleep"
    /\ ~Pending
    /\ traders # <<>>
    /\ \E t \in {now, now + 1} : t > checker[f].at /\ StartPass(f, t)
    /\ UNCHANGED <<traders, checkerOut, liquidatableTraders, liquidator, recheck,
                   orphans, events, filters, run, bot, left,
                   eventsIterator>>

\* the recheck interval has elapsed and the traders are empty: await once(...)
CheckerSuspend(f) ==
    /\ checker[f].pc = "sleep"
    /\ ~Pending
    /\ traders = <<>>
    /\ checker' = [checker EXCEPT ![f].pc = "waiting"]
    /\ UNCHANGED <<now, traders, checkerOut, liquidatableTraders, liquidator,
                   recheck, orphans, events, filters, run, bot, left,
                   eventsIterator>>

\* the provider answers (or throws for) the chunk in flight of filter f's pass
CheckerReturn(f, ok, areLiquidatable) ==
    /\ checker[f].pc = "query"
    /\ ~Pending
    /\ ok \/ left.checkFail > 0
    /\ LET r == CheckerStep(traders, checker[f], ok, areLiquidatable) IN
        IF Destroyed /\ r.yielded # <<>>
        THEN \* the PassThrough is destroyed: the generator is ended at its yield
             /\ traders' = IF ok THEN r.traders ELSE traders
             /\ checkerOut' = checkerOut
             /\ checker' = [checker EXCEPT ![f].pc = "ended"]
        ELSE /\ traders' = r.traders
             /\ checkerOut' = checkerOut \o r.yielded
             /\ checker' = [checker EXCEPT ![f] =
                     IF @.idx + 1 < NumChunks(@.snap)
                     THEN [@ EXCEPT !.idx = @ + 1]
                     ELSE [@ EXCEPT !.pc = "sleep"]]
    /\ left' = IF ok THEN left ELSE [left EXCEPT !.checkFail = @ - 1]
    /\ UNCHANGED <<now, liquidatableTraders, liquidator, recheck, orphans, events, filters, run, bot,
                   eventsIterator>>

CheckerAnswer(f) ==
    \E ok \in BOOLEAN :
        \E areLiquidatable \in [1..Len(Chunk(checker[f].snap, checker[f].idx)) -> BOOLEAN] :
            CheckerReturn(f, ok, areLiquidatable)

\* variant: the new traders are put in front of the Set
SaveInFront(set, newLiquidatableTraders) ==
    AddAll(newLiquidatableTraders, set)

\* variant: the traders are kept in a list, one entry per forwarding
SaveAsList(set, newLiquidatableTraders) == set \o newLiquidatableTraders

\* saveLiquidatableTraders: add every trader; emit gotLiquidatableTraders if size > 0
SaveLiquidatableTraders(set, newLiquidatableTraders) ==
    AddAll(set, newLiquidatableTraders)

\* the adapter takes one item of the Checker's output
CheckerAdapter ==
    /\ EmitReturns(eventsIterator)
    /\ ~Destroyed
    /\ checkerOut # <<>>
    /\ checkerOut' = Tail(checkerOut)
    /\ LET item == Head(checkerOut) IN
        IF item.err
        THEN /\ events' = Append(events, Event("error", "CheckError", item.list))
             /\ UNCHANGED <<liquidatableTraders, liquidator, filters, run, bot>>
        ELSE /\ events' = Append(events, Event("tradersChecked", "", item.list))
             /\ liquidatableTraders' =
                    SaveLiquidatableTraders(liquidatableTraders, item.list)
             /\ liquidator' =
                    IF liquidatableTraders' # <<>> /\ liquidator.pc = "waiting"
                    THEN [liquidator EXCEPT !.pc = "woken"]
                    ELSE liquidator
    /\ UNCHANGED <<now, traders, checker, recheck, orphans, filters, run, bot, left>>
    /\ eventsIterator' = OnReport(eventsIterator, NewEvents)

\* --------------------------------------------------------------- Liquidator
\* The variable recheck is the closure of the latest filterNonLiquidatableTraders
\* call: its arguments and locals, one async task per filter (idx: the chunk in
\* flight, got: gotSomeNonErrorResults, bad: a chunk of it failed), and st:
\* whether the promise someFilterSucceedOrAllFails is resolved. yes and no
\* record the traders some provider answered true, false for before it resolved,
\* yielded the length liquidatableChecksErrors had when the generator read it.
Task(st) == [st |-> st, idx |-> 0, got |-> FALSE, bad |-> FALSE]

NoRecheck ==
    [st |-> "none", traders |-> <<>>, nonLiquidatableTraders |-> {},
     liquidatableChecksErrors |-> <<>>, processed |-> 0,
     task |-> [f \in Filters |-> Task("idle")], yes |-> {}, no |-> {},
     yielded |-> 0]

\* variant: the call re-checks every trader of the set
RecheckWholeSet(erroredTraders) ==
    [st |-> IF liquidatableTraders = <<>> THEN "returned" ELSE "running",
     traders |-> liquidatableTraders,
     nonLiquidatableTraders |-> SeqSet(liquidatableTraders),
     liquidatableChecksErrors |-> <<>>,
     processed |-> IF liquidatableTraders = <<>> THEN Cardinality(filters) ELSE 0,
     task |-> [f \in Filters |->
                 Task(IF f \notin filters THEN "idle"
                      ELSE IF liquidatableTraders = <<>> THEN "done" ELSE "query")],
     yes |-> {}, no |-> {}, yielded |-> 0]

\* the closure when the call starts: a filter over [] is through at once
NewRecheck(erroredTraders) ==
    [st |-> IF erroredTraders = <<>> THEN "returned" ELSE "running",
     traders |-> erroredTraders,
     nonLiquidatableTraders |-> SeqSet(erroredTraders),
     liquidatableChecksErrors |-> <<>>,
     processed |-> IF erroredTraders = <<>> THEN Cardinality(filters) ELSE 0,
     task |-> [f \in Filters |->
                 Task(IF f \notin filters THEN "idle"
                      ELSE IF erroredTraders = <<>> THEN "done" ELSE "query")],
     yes |-> {}, no |-> {}, yielded |-> 0]

\* the tasks of the latest call that still await a provider
Running(rc) == {f \in Filters : rc.task[f].st = "query"}

\* loop head with an empty set: await once(tradersEvents, "gotLiquidatableTraders")
LiquidatorSuspend ==
    /\ liquidator.pc = "top"
    /\ liquidatableTraders = <<>>
    /\ liquidator' = [liquidator EXCEPT !.pc = "waiting"]
    /\ UNCHANGED <<now, traders, checker, checkerOut, liquidatableTraders, recheck,
                   orphans, events, filters, run, bot, left,
                   eventsIterator>>

\* exchangeService.liquidate(exchange, [...liquidatableTraders]) is called
LiquidateCall ==
    /\ \/ liquidator.pc = "woken"
       \/ liquidator.pc = "top" /\ liquidatableTraders # <<>>
    /\ left.liq > 0
    /\ left' = [left EXCEPT !.liq = @ - 1]
    /\ liquidator' = [liquidator EXCEPT !.pc = "liquidating",
                                        !.batch = liquidatableTraders]
    /\ UNCHANGED <<now, traders, checker, checkerOut, liquidatableTraders, recheck,
                   orphans, events, filters, run, bot,
                   eventsIterator>>

\* the traders of batch whose outcome is (want) or is not a transaction, in order
Outcome(batch, succeeded, want) ==
    Without(batch, {batch[i] : i \in {j \in 1..Len(batch) : succeeded[j] # want}})

\* variant: the liquidationsErrors are not reported
ReportOnlyLiquidated(liquidated, errored) ==
    [i \in 1..Len(liquidated) |-> Event("traderLiquidated", "", <<liquidated[i]>>)]

\* liquidatorReporter for { liquidationsResults, liquidationsErrors }
ReportLiquidations(liquidated, errored) ==
    [i \in 1..Len(errored) |-> Event("error", "LiquidationError", <<errored[i]>>)]
    \o [i \in 1..Len(liquidated) |-> Event("traderLiquidated", "", <<liquidated[i]>>)]

\* liquidatorReporter for { liquidatableChecksErrors }
ReportCheckErrors(errors) ==
    [i \in 1..Len(errors) |-> Event("error", "CheckError", errors[i])]

\* variant: the set is emptied when liquidate returns
ClearOnReturn(set, liquidated) == <<>>

\* liquidatedTraders.forEach((trader) => liquidatableTraders.delete(trader))
DeleteLiquidated(set, liquidated) == Without(set, SeqSet(liquidated))

\* await setTimeout(retryIntervalSec), setTimeout of node:timers/promises: the
\* delay of the timer in milliseconds
RetryTimer(retryIntervalSec) == retryIntervalSec

\* if (liquidationsErrors.length) await setTimeout(retryIntervalSec)
PauseNeeded(liquidationsErrors) == liquidationsErrors # <<>>

\* liquidate returns: delete the liquidated, yield the results; with errors pause,
\* without errors the re-check of [] returns at once and the loop starts over
LiquidateReturn(succeeded) ==
    /\ EmitReturns(eventsIterator)
    /\ liquidator.pc = "liquidating"
    /\ ~Pending
    /\ LET liquidated == Outcome(liquidator.batch, succeeded, TRUE)
           errored == Outcome(liquidator.batch, succeeded, FALSE)
       IN /\ liquidatableTraders' = DeleteLiquidated(liquidatableTraders, liquidated)
          /\ IF Destroyed
             THEN \* the stream is destroyed: the generator is ended at its yield
                  /\ liquidator' = [pc |-> "ended", batch |-> <<>>, failed |-> errored,
                                    delay |-> 0]
                  /\ UNCHANGED <<events, recheck, orphans>>
             ELSE /\ events' = events \o ReportLiquidations(liquidated, errored)
                  /\ liquidator' = [pc |-> IF PauseNeeded(errored) THEN "pause" ELSE "top",
                                    batch |-> <<>>, failed |-> errored,
                                    delay |-> IF PauseNeeded(errored)
                                              THEN RetryTimer(RetryIntervalSec)
                                              ELSE 0]
                  /\ recheck' = IF errored = <<>> THEN NewRecheck(<<>>) ELSE recheck
                  /\ orphans' = IF errored = <<>>
                                THEN orphans + Cardinality(Running(recheck))
                                ELSE orphans
    /\ UNCHANGED <<now, traders, checker, checkerOut, filters, run, bot, left>>
    /\ eventsIterator' = OnReport(eventsIterator, NewEvents)

LiquidateAnswer ==
    \E succeeded \in [1..Len(liquidator.batch) -> BOOLEAN] : LiquidateReturn(succeeded)

\* the pause is over: filterNonLiquidatableTraders(erroredTraders, filters) starts
\* and every filter issues the query for its first chunk
RecheckStart ==
    /\ liquidator.pc = "pause"
    /\ ~Pending
    /\ liquidator' = [liquidator EXCEPT !.pc = "recheck"]
    /\ recheck' = NewRecheck(liquidator.failed)
    /\ orphans' = orphans + Cardinality(Running(recheck))
    /\ UNCHANGED <<now, traders, checker, checkerOut, liquidatableTraders, events,
                   filters, run, bot, left,
                   eventsIterator>>

\* variant: the re-check returns only when some filter got an answer
WhenSomeSucceeded(processed, gotSomeNonErrorResults) ==
    gotSomeNonErrorResults

\* variant: the promise resolves only when every filter is through
WhenAllProcessed(processed, gotSomeNonErrorResults) ==
    processed = Cardinality(filters)

\* variant: the promise resolves when the first filter is through
WhenFirstProcessed(processed, gotSomeNonErrorResults) ==
    processed >= 1 \/ gotSomeNonErrorResults

\* allProcessed || gotSomeNonErrorResults
ShouldReturnResults(processed, gotSomeNonErrorResults) ==
    processed = Cardinality(filters) \/ gotSomeNonErrorResults

\* variant: the traders answered false are the ones taken for liquidatable
DeleteNotLiquidatable(nonLiquidatableTraders, chunkOfTraders, areLiquidatable) ==
    nonLiquidatableTraders \
        {chunkOfTraders[i] : i \in {j \in 1..Len(chunkOfTraders) : ~areLiquidatable[j]}}

\* _(checkResult).pickBy(Boolean).keys().forEach((t) => nonLiquidatableTraders.delete(t))
DeleteLiquidatable(nonLiquidatableTraders, chunkOfTraders, areLiquidatable) ==
    nonLiquidatableTraders \
        {chunkOfTraders[i] : i \in {j \in 1..Len(chunkOfTraders) : areLiquidatable[j]}}

\* one result of filter f inside filterNonLiquidatableTraders, and the then()
\* callback when it was the last one of f
RecheckStep(rc, f, ok, areLiquidatable) ==
    LET chunkOfTraders == Chunk(rc.traders, rc.task[f].idx)
        last == rc.task[f].idx + 1 >= NumChunks(rc.traders)
        got == rc.task[f].got \/ ok
        processed == IF last THEN rc.processed + 1 ELSE rc.processed
        errors == IF ok THEN rc.liquidatableChecksErrors
                  ELSE Append(rc.liquidatableChecksErrors, chunkOfTraders)
        resolves == rc.st = "running" /\ last /\ ShouldReturnResults(processed, got)
        answered(b) == IF ok /\ rc.st = "running"
                       THEN {chunkOfTraders[i] :
                               i \in {j \in 1..Len(chunkOfTraders) : areLiquidatable[j] = b}}
                       ELSE {}
    IN [st |-> IF resolves THEN "returned" ELSE rc.st,
        traders |-> rc.traders,
        nonLiquidatableTraders |->
            IF ok THEN DeleteLiquidatable(rc.nonLiquidatableTraders, chunkOfTraders,
                                          areLiquidatable)
            ELSE rc.nonLiquidatableTraders,
        liquidatableChecksErrors |-> errors,
        processed |-> processed,
        task |-> [rc.task EXCEPT ![f] =
                    [st |-> IF last THEN "done" ELSE "query",
                     idx |-> IF last THEN @.idx ELSE @.idx + 1,
                     got |-> got,
                     bad |-> @.bad \/ ~ok]],
        yes |-> rc.yes \cup answered(TRUE),
        no |-> rc.no \cup answered(FALSE),
        yielded |-> IF resolves THEN Len(errors) ELSE rc.yielded]

\* variant: the re-check result is not applied to the set
DeleteNone(set, nonLiquidatableTraders) == set

\* nonLiquidatableTraders.forEach((t) => liquidatableTraders.delete(t))
DeleteNonLiquidatable(set, nonLiquidatableTraders) == Without(set, nonLiquidatableTraders)

\* a provider answers (or throws for) the chunk in flight of filter f's re-check.
\* When this resolves the promise, liquidationsGenerator continues: it deletes
\* the non-liquidatable traders and yields the CheckErrors collected so far.
\* After the promise is resolved the task writes to the same Set and array,
\* which nobody reads any more.
RecheckReturn(f, ok, areLiquidatable) ==
    /\ EmitReturns(eventsIterator)
    /\ recheck.task[f].st = "query"
    /\ ~Pending
    /\ ok \/ left.recheckFail > 0
    /\ left' = IF ok THEN left ELSE [left EXCEPT !.recheckFail = @ - 1]
    /\ LET rc == RecheckStep(recheck, f, ok, areLiquidatable) IN
        /\ recheck' = rc
        /\ IF recheck.st = "running" /\ rc.st = "returned"
           THEN /\ liquidatableTraders' =
                       DeleteNonLiquidatable(liquidatableTraders, rc.nonLiquidatableTraders)
                /\ events' = IF Destroyed THEN events
                             ELSE events \o ReportCheckErrors(rc.liquidatableChecksErrors)
                /\ liquidator' =
                       [liquidator EXCEPT !.pc =
                           IF Destroyed /\ rc.liquidatableChecksErrors # <<>>
                           THEN "ended" ELSE "top"]
           ELSE UNCHANGED <<liquidatableTraders, events, liquidator>>
    /\ UNCHANGED <<now, traders, checker, checkerOut, orphans, filters, run, bot>>
    /\ eventsIterator' = OnReport(eventsIterator, NewEvents)

RecheckAnswer(f) ==
    \E ok \in BOOLEAN :
        \E areLiquidatable \in
              [1..Len(Chunk(recheck.traders, recheck.task[f].idx)) -> BOOLEAN] :
            RecheckReturn(f, ok, areLiquidatable)

\* a task of an earlier filterNonLiquidatableTraders call gets its answers: it
\* writes to the Set and the array of that call only
OrphanReturn ==
    /\ orphans > 0
    /\ ~Pending
    /\ orphans' = orphans - 1
    /\ UNCHANGED <<now, traders, checker, checkerOut, liquidatableTraders,
                   liquidator, recheck, events, filters, run, bot, left,
                   eventsIterator>>

\* ------------------------------------------------------------- Orchestrator
\* the module state right after a start() that succeeded: isRunning holds the
\* pending promise of the pipeline, the new AbortController is not aborted
NewSession ==
    [isRunning |-> "promise", ended |-> FALSE, aborted |-> FALSE, stop |-> 0,
     last |-> "started", live |-> 1, listeners |-> TRUE,
     failed |-> FALSE, join |-> 0]

\* variant: the guards of start() and stop() take any value of isRunning as unset
NeverRunning(isRunning) == FALSE

\* if (isRunning): null is falsy, a promise is truthy whether settled or not
IsRunning(isRunning) == isRunning # "null"

\* variant: nothing is emitted when the pipeline ends with ABORT_ERR
OnAbortSilent(log) == log

\* the catch handler for ABORT_ERR: botEventEmitter.emit("report", { type: "botStopped" })
OnAbortError(log) == Append(log, Event("botStopped", "", <<>>))

\* variant: isRunning is left as it is
KeepPromise(isRunning) == isRunning

\* await isRunning; isRunning = null
AfterAwait(isRunning) == "null"

\* the filters start() builds and hands to the Checker and the Liquidator: one
\* filter, constructFilterLiquidatableTraders(liquidationBotApi, ...); start()
\* has no parameter for support providers, so what the caller passes as
\* supportLiquidationBotApis is not read
ConstructFilters(supportApis) == {"primary"}

\* start() while running: throws, nothing is changed
StartThrows ==
    /\ left.start > 0
    /\ ~Pending
    /\ IsRunning(bot.isRunning)
    /\ left' = [left EXCEPT !.start = @ - 1]
    /\ bot' = [bot EXCEPT !.last = "startThrew"]
    /\ UNCHANGED <<now, traders, checker, checkerOut, liquidatableTraders, liquidator,
                   recheck, orphans, events, filters, run,
                   eventsIterator>>

\* start() while not running: a new AbortController, new processors with empty
\* state, a new pipeline; isRunning is its promise. The generators a stopped
\* session left behind are not followed any further.
Start ==
    /\ left.start > 0
    /\ ~Pending
    /\ ~IsRunning(bot.isRunning)
    /\ left' = [left EXCEPT !.start = @ - 1]
    /\ bot' = [NewSession EXCEPT !.live = bot.live + 1, !.listeners = bot.listeners,
                                 !.stop = bot.stop, !.join = bot.join]
    /\ filters' = ConstructFilters(left.supportApis)
    /\ traders' = <<>>
    /\ checker' = [f \in Filters |->
                     [pc |-> IF f \in filters' THEN "waiting" ELSE "off",
                      snap |-> <<>>, at |-> 0, idx |-> 0, n |-> checker[f].n]]
    /\ checkerOut' = <<>>
    /\ liquidatableTraders' = <<>>
    /\ liquidator' = [pc |-> "waiting", batch |-> <<>>, failed |-> <<>>, delay |-> 0]
    /\ recheck' = NoRecheck
    /\ orphans' = 0
    /\ UNCHANGED <<now, events, run,
                   eventsIterator>>

\* stop() while not running: throws, nothing is changed
StopThrows ==
    /\ left.stop > 0
    /\ ~Pending
    /\ ~IsRunning(bot.isRunning)
    /\ left' = [left EXCEPT !.stop = @ - 1]
    /\ bot' = [bot EXCEPT !.last = "stopThrew"]
    /\ UNCHANGED <<now, traders, checker, checkerOut, liquidatableTraders, liquidator,
                   recheck, orphans, events, filters, run,
                   eventsIterator>>

\* stop() while running: botAbortController.abort() destroys the streams of the
\* pipeline; the call is suspended at await isRunning
Stop ==
    /\ left.stop > 0
    /\ ~Pending
    /\ IsRunning(bot.isRunning)
    /\ left' = [left EXCEPT !.stop = @ - 1]
    /\ bot' = [bot EXCEPT !.aborted = TRUE, !.stop = @ + 1, !.last = "stopCalled"]
    /\ UNCHANGED <<now, traders, checker, checkerOut, liquidatableTraders, liquidator,
                   recheck, orphans, events, filters, run,
                   eventsIterator>>

\* a stage throws an error that is not the abort (a rejected call the stage does
\* not catch): the pipeline takes it as its error, unless it has one already,
\* and destroys its streams
StageThrows ==
    /\ left.fail > 0
    /\ ~Pending
    /\ ~Destroyed
    /\ ~bot.ended
    /\ left' = [left EXCEPT !.fail = @ - 1]
    /\ bot' = [bot EXCEPT !.failed = TRUE]
    /\ UNCHANGED <<now, traders, checker, checkerOut, liquidatableTraders, liquidator,
                   recheck, orphans, events, filters, run,
                   eventsIterator>>

\* variant: every error that ends the pipeline is taken for the abort
AnyErrorStops(log, failed) == Append(log, Event("botStopped", "", <<>>))

\* the catch handler of the pipeline's promise: with ABORT_ERR botStopped is
\* emitted, any other error is thrown again
OnPipelineError(log, failed) == IF failed THEN log ELSE OnAbortError(log)

\* the pipeline's promise rejects and the catch handler runs. With ABORT_ERR
\* botStopped is emitted, the listeners are removed and isRunning's promise
\* resolves; with any other error isRunning's promise rejects. When the
\* destroyed streams have closed depends on the stream implementation (at
\* once, or when the Liquidator's generator gets to a yield).
PipelineEnd ==
    /\ EmitReturns(eventsIterator)
    /\ Destroyed
    /\ ~bot.ended
    /\ events' = OnPipelineError(events, bot.failed)
    /\ bot' = [bot EXCEPT !.ended = TRUE, !.live = @ - 1,
                          !.listeners = IF bot.failed THEN @ ELSE FALSE]
    /\ UNCHANGED <<now, traders, checker, checkerOut, liquidatableTraders, liquidator,
                   recheck, orphans, filters, left, run>>
    /\ eventsIterator' = IF bot.failed THEN eventsIterator
                         ELSE RemoveAllListeners(OnReport(eventsIterator, NewEvents))

\* a stop() call continues behind await isRunning: isRunning = null, it
\* returns; if the promise is rejected the await throws and the call rejects
StopReturn ==
    /\ bot.stop > 0
    /\ bot.ended
    /\ bot' = IF bot.failed
              THEN [bot EXCEPT !.stop = @ - 1, !.last = "stopRejected"]
              ELSE [bot EXCEPT !.stop = @ - 1, !.isRunning = AfterAwait(@),
                               !.last = "stopReturned"]
    /\ UNCHANGED <<now, traders, checker, checkerOut, liquidatableTraders, liquidator,
                   recheck, orphans, events, filters, left, run,
                   eventsIterator>>

\* variant: join() aborts the session like stop()
JoinAborts(aborted) == TRUE

\* join() has no call of botAbortController.abort()
JoinSignal(aborted) == aborted

\* join() while not running: the body of the if is skipped, it returns
JoinIdle ==
    /\ left.join > 0
    /\ ~Pending
    /\ ~IsRunning(bot.isRunning)
    /\ left' = [left EXCEPT !.join = @ - 1]
    /\ bot' = [bot EXCEPT !.last = "joinIdle"]
    /\ UNCHANGED <<now, traders, checker, checkerOut, liquidatableTraders, liquidator,
                   recheck, orphans, events, filters, run,
                   eventsIterator>>

\* join() while running: the call is suspended at await isRunning
Join ==
    /\ left.join > 0
    /\ ~Pending
    /\ IsRunning(bot.isRunning)
    /\ left' = [left EXCEPT !.join = @ - 1]
    /\ bot' = [bot EXCEPT !.join = @ + 1, !.last = "joinCalled",
                          !.aborted = JoinSignal(@)]
    /\ UNCHANGED <<now, traders, checker, checkerOut, liquidatableTraders, liquidator,
                   recheck, orphans, events, filters, run,
                   eventsIterator>>

\* a join() call continues behind await isRunning: isRunning = null, it
\* returns; if the promise is rejected the await throws and the call rejects
JoinReturn ==
    /\ bot.join > 0
    /\ bot.ended
    /\ bot' = IF bot.failed
              THEN [bot EXCEPT !.join = @ - 1, !.last = "joinRejected"]
              ELSE [bot EXCEPT !.join = @ - 1, !.isRunning = AfterAwait(@),
                               !.last = "joinReturned"]
    /\ UNCHANGED <<now, traders, checker, checkerOut, liquidatableTraders, liquidator,
                   recheck, orphans, events, filters, left, run,
                   eventsIterator>>

\* the consumer calls next() of an iterator of getEventsIterator() for the first
\* time: the generator starts and on(botEventEmitter, "report") adds its listener
IteratorStart ==
    /\ left.sub > 0
    /\ eventsIterator.pc = "off"
    /\ left' = [left EXCEPT !.sub = @ - 1]
    /\ eventsIterator' = [eventsIterator EXCEPT !.pc = "on", !.from = Len(events)]
    /\ UNCHANGED <<now, traders, checker, checkerOut, liquidatableTraders, liquidator,
                   recheck, orphans, events, filters, run, bot>>

\* for await (const [events] of eventsIterator) yield events: the consumer gets
\* the oldest unconsumed event
IteratorYield ==
    /\ eventsIterator.unconsumedEvents # <<>>
    /\ eventsIterator' = [eventsIterator EXCEPT
                             !.unconsumedEvents = Tail(@),
                             !.got = Append(@, Head(eventsIterator.unconsumedEvents))]
    /\ UNCHANGED <<now, traders, checker, checkerOut, liquidatableTraders, liquidator,
                   recheck, orphans, events, filters, left, run, bot>>

\* ------------------------------------------------------------ Check Filter
\* no call of the filter is followed on its own
NoRun ==
    [pc |-> "off", traders |-> <<>>, chunkSize |-> ChunkSize, chunkIndex |-> 0,
     queries |-> <<>>, answers |-> <<>>, results |-> <<>>]

\* filter(traders) of constructFilterLiquidatableTraders(api, address, chunkSize):
\* the generator before its first step
NewRun(list, chunkSize) ==
    [NoRun EXCEPT !.pc = "next", !.traders = list, !.chunkSize = chunkSize]

\* variant: the offset is the index of the chunk
CheckErrorAtIndex(chunkOfTraders, chunkIndex, chunkSize, total, cause) ==
    [err |-> TRUE, entries |-> <<>>, chunk |-> chunkOfTraders,
     offset |-> chunkIndex, total |-> total, cause |-> cause]

\* new CheckError(chunkOfTraders, chunkIndex * chunkSize, traders.length, error)
NewCheckError(chunkOfTraders, chunkIndex, chunkSize, total, cause) ==
    [err |-> TRUE, entries |-> <<>>, chunk |-> chunkOfTraders,
     offset |-> chunkIndex * chunkSize, total |-> total, cause |-> cause]

\* the result object of a chunk
CheckResult(entries) ==
    [err |-> FALSE, entries |-> entries, chunk |-> <<>>,
     offset |-> Undefined, total |-> Undefined, cause |-> ""]

\* for (const [chunkIndex, chunkOfTraders] of chunksOfTraders.entries()):
\* isLiquidatable(exchangeAddress, chunkOfTraders) is called for the next chunk
FilterQuery ==
    /\ run.pc = "next"
    /\ run.chunkIndex < ChunksCount(run.traders, run.chunkSize)
    /\ run' = [run EXCEPT
                 !.pc = "query",
                 !.queries = Append(@, ChunkAt(run.traders, run.chunkSize, run.chunkIndex))]
    /\ UNCHANGED <<now, traders, checker, checkerOut, liquidatableTraders, liquidator,
                   recheck, orphans, events, filters, left, bot,
                   eventsIterator>>

\* the provider answers or throws; the generator yields the result object or
\* the CheckError and goes on with the loop
FilterYield(ok, areLiquidatable, cause) ==
    /\ run.pc = "query"
    /\ LET chunkOfTraders == ChunkAt(run.traders, run.chunkSize, run.chunkIndex) IN
        run' = [run EXCEPT
                  !.pc = "next",
                  !.chunkIndex = @ + 1,
                  !.answers = Append(@, [ok |-> ok, areLiquidatable |-> areLiquidatable,
                                         cause |-> cause]),
                  !.results = Append(@,
                      IF ok THEN CheckResult(ZipObject(chunkOfTraders, areLiquidatable))
                      ELSE NewCheckError(chunkOfTraders, run.chunkIndex, run.chunkSize,
                                         Len(run.traders), cause))]
    /\ UNCHANGED <<now, traders, checker, checkerOut, liquidatableTraders, liquidator,
                   recheck, orphans, events, filters, left, bot,
                   eventsIterator>>

FilterAnswer ==
    \/ \E areLiquidatable \in
            [1..Len(ChunkAt(run.traders, run.chunkSize, run.chunkIndex)) -> BOOLEAN] :
          FilterYield(TRUE, areLiquidatable, "")
    \/ \E cause \in Causes : FilterYield(FALSE, <<>>, cause)

\* the loop is over: the generator returns
FilterReturn ==
    /\ run.pc = "next"
    /\ run.chunkIndex >= ChunksCount(run.traders, run.chunkSize)
    /\ run' = [run EXCEPT !.pc = "done"]
    /\ UNCHANGED <<now, traders, checker, checkerOut, liquidatableTraders, liquidator,
                   recheck, orphans, events, filters, left, bot,
                   eventsIterator>>

\* ------------------------------------------------------------ specification
\* the state after start(): every generator suspended on its empty set
Started(given, bounds) ==
    /\ now = 1
    /\ traders = <<>>
    /\ checker = [f \in Filters |->
                    [pc |-> IF f \in given THEN "waiting" ELSE "off",
                     snap |-> <<>>, at |-> 0, idx |-> 0, n |-> bounds.pass]]
    /\ checkerOut = <<>>
    /\ liquidatableTraders = <<>>
    /\ liquidator = [pc |-> "waiting", batch |-> <<>>, failed |-> <<>>, delay |-> 0]
    /\ recheck = NoRecheck
    /\ orphans = 0
    /\ events = <<>>
    /\ filters = given
    /\ run = NoRun
    /\ left = [fetch |-> bounds.fetch, liq |-> bounds.liq,
               checkFail |-> bounds.checkFail, recheckFail |-> bounds.recheckFail,
               start |-> bounds.start, stop |-> bounds.stop,
               join |-> bounds.join, fail |-> bounds.fail, sub |-> bounds.sub,
               supportApis |-> bounds.supportApis]
    /\ bot = NewSession
    /\ eventsIterator = NoIterator

\* one provider: several Fetcher deliveries and passes
OneProvider ==
    [fetch |-> MaxFetches, pass |-> MaxPasses, liq |-> 1,
     checkFail |-> 0, recheckFail |-> 0, start |-> 0, stop |-> 0, join |-> 0, fail |-> 0, sub |-> 0,
     supportApis |-> {}]

\* one provider: a failing check chunk
FailingCheck ==
    [fetch |-> 1, pass |-> 1, liq |-> 1,
     checkFail |-> MaxCheckFailures, recheckFail |-> 0, start |-> 0, stop |-> 0, join |-> 0, fail |-> 0, sub |-> 0,
     supportApis |-> {}]

\* the processors started with the filters of two providers: overlapping
\* passes, several liquidation cycles, failing re-check chunks
WithSupport ==
    [fetch |-> 1, pass |-> 1, liq |-> MaxLiquidations,
     checkFail |-> 0, recheckFail |-> MaxRecheckFailures, start |-> 0, stop |-> 0, join |-> 0, fail |-> 0, sub |-> 0,
     supportApis |-> {"support"}]

\* start() of bot.ts called with a support provider: join() and stop() calls
\* at any moment of a session that a thrown error may end, and a start()
\* afterwards
Joined ==
    [fetch |-> 1, pass |-> 1, liq |-> 1,
     checkFail |-> 0, recheckFail |-> 0, start |-> 1, stop |-> 1,
     join |-> MaxJoins, fail |-> MaxFailures, sub |-> 0,
     supportApis |-> {"support"}]

\* one provider: a consumer of the events that starts and reads at any moment
\* of a session, of its stop() and of the session started afterwards
Consumed ==
    [fetch |-> MaxFetches, pass |-> 1, liq |-> 0,
     checkFail |-> 0, recheckFail |-> 0, start |-> 1, stop |-> 1,
     join |-> 0, fail |-> 0, sub |-> 1,
     supportApis |-> {}]

\* one provider: a consumer of the events that starts and reads at any moment,
\* or never, of a session with a liquidation
Stalled ==
    [fetch |-> 1, pass |-> 1, liq |-> 1,
     checkFail |-> 0, recheckFail |-> 0, start |-> 0, stop |-> 0,
     join |-> 0, fail |-> 0, sub |-> 1,
     supportApis |-> {}]

\* one provider: one pass and Fetcher deliveries enough for a trader to be
\* delivered, left out and delivered again
Returning ==
    [fetch |-> MaxFetches + 1, pass |-> 1, liq |-> 0,
     checkFail |-> 0, recheckFail |-> 0, start |-> 0, stop |-> 0,
     join |-> 0, fail |-> 0, sub |-> 0,
     supportApis |-> {}]

\* the processors started with the filters of two providers: Fetcher
\* deliveries that empty the traders while the
\* passes of the two providers overlap
Emptied ==
    [fetch |-> MaxFetches, pass |-> 1, liq |-> 0,
     checkFail |-> 0, recheckFail |-> 0, start |-> 0, stop |-> 0,
     join |-> 0, fail |-> 0, sub |-> 0,
     supportApis |-> {"support"}]

\* one provider: start() and stop() calls at any moment of a session with a
\* failing liquidation
Lifecycle ==
    [fetch |-> 1, pass |-> MaxPasses, liq |-> 1,
     checkFail |-> 0, recheckFail |-> 1, start |-> MaxStarts, stop |-> MaxStops, join |-> 0, fail |-> 0, sub |-> 0,
     supportApis |-> {}]

Init ==
    \/ Started({"primary"}, OneProvider)
    \/ Started({"primary"}, FailingCheck)
    \/ Started(Filters, WithSupport)
    \/ Started({"primary"}, Lifecycle)
    \/ Started(ConstructFilters(Joined.supportApis), Joined)
    \/ Started({"primary"}, Consumed)
    \/ Started({"primary"}, Stalled)
    \/ Started({"primary"}, Returning)
    \/ Started(Filters, Emptied)

Next ==
    \/ \E activeTraders \in FetchLists : FetchDeliver(activeTraders)
    \/ FetchFail
    \/ \E f \in filters : CheckerResume(f)
    \/ \E f \in filters : CheckerLoop(f)
    \/ \E f \in filters : CheckerSuspend(f)
    \/ \E f \in filters : CheckerAnswer(f)
    \/ CheckerAdapter
    \/ LiquidatorSuspend
    \/ LiquidateCall
    \/ LiquidateAnswer
    \/ RecheckStart
    \/ \E f \in filters : RecheckAnswer(f)
    \/ OrphanReturn
    \/ Start
    \/ StartThrows
    \/ Stop
    \/ StopThrows
    \/ PipelineEnd
    \/ StopReturn
    \/ StageThrows
    \/ JoinIdle
    \/ Join
    \/ JoinReturn
    \/ IteratorStart
    \/ IteratorYield

Spec == Init /\ [][Next]_vars

\* one call of the filter, for every list of distinct traders (the callers pass
\* Object.keys(traders) and the traders of a liquidate call) and chunk size
FilterInit ==
    /\ now = 1
    /\ traders = <<>>
    /\ checker = [f \in Filters |-> [pc |-> "off", snap |-> <<>>, at |-> 0, idx |-> 0, n |-> 0]]
    /\ checkerOut = <<>>
    /\ liquidatableTraders = <<>>
    /\ liquidator = [pc |-> "waiting", batch |-> <<>>, failed |-> <<>>, delay |-> 0]
    /\ recheck = NoRecheck
    /\ orphans = 0
    /\ events = <<>>
    /\ filters = {}
    /\ left = [fetch |-> 0, liq |-> 0, checkFail |-> 0, recheckFail |-> 0,
               start |-> 0, stop |-> 0, join |-> 0, fail |-> 0, sub |-> 0,
               supportApis |-> {}]
    /\ bot = NewSession
    /\ eventsIterator = NoIterator
    /\ \E list \in FilterInputs : \E chunkSize \in 1..MaxChunkSize :
          run = NewRun(list, chunkSize)

FilterNext ==
    \/ FilterQuery
    \/ FilterAnswer
    \/ FilterReturn

FilterSpec == FilterInit /\ [][FilterNext]_vars

\* ------------------------------------------------------------------ the log
\* the positions of events at which x is reported by an event of this type
Reported(type, kind, x) ==
    {i \in 1..Len(events) :
        /\ events[i].type = type
        /\ events[i].kind = kind
        /\ x \in SeqSet(events[i].traders)}

Liquidated(x) == Reported("traderLiquidated", "", x)

\* the positions of the botStopped events
Stopped == {i \in 1..Len(events) : events[i].type = "botStopped"}

\* the positions of the Fetcher deliveries
Deliveries == {i \in 1..Len(events) : events[i].type = "tradersFetched"}

\* delivery j does not contain x, and no delivery between j and i contains it
DroppedSince(x, j, i) ==
    /\ j \in Deliveries
    /\ j < i
    /\ \A k \in Deliveries : j <= k /\ k < i => x \notin SeqSet(events[k].traders)

\* ------------------------------------------------------------------- claims
\* C1: within a session a trader that was liquidated is reported by exactly one
\* traderLiquidated event: no second liquidation of the trader succeeds, also
\* when the answer "liquidatable" of a slower provider arrives after the first.
C1_LiquidatedOnce ==
    \A x \in Traders : Cardinality(Liquidated(x)) <= 1

\* C2: once a Fetcher delivery comes without trader x, and until a delivery
\* contains x again, no result of a check pass forwards x to a liquidation that
\* gets reported by traderLiquidated.
C2_NoLiquidationAfterDrop ==
    \A x \in Traders : \A i \in Liquidated(x) : \A j \in Deliveries :
        DroppedSince(x, j, i) =>
            ~\E k \in Reported("tradersChecked", "", x) : j < k /\ k < i

\* C3: a successful check result of the pass with timestamp T is applied to a
\* trader x it covers only if x was last checked at null or before T, and then
\* x's last-checked-at becomes T; if x was last checked at T or later, the result
\* leaves x's last-checked-at alone and x is not forwarded.
C3_Result(f) ==
    /\ checker[f].pc = "query"
    /\ checker'[f] # checker[f]
    /\ left'.checkFail = left.checkFail
    /\ bot' = bot
    /\ checkerOut' # checkerOut => ~checkerOut'[Len(checkerOut) + 1].err

C3_Forwarded ==
    UNION {SeqSet(checkerOut'[i].list) : i \in (Len(checkerOut) + 1)..Len(checkerOut')}

C3_FreshnessRule ==
    [][\A f \in filters : C3_Result(f) =>
         \A x \in SeqSet(Chunk(checker[f].snap, checker[f].idx)) :
            LET last == Get(traders, x)
                T == checker[f].at
            IN /\ last = Null \/ (last > 0 /\ last < T) => Get(traders', x) = T
               /\ last > 0 /\ last >= T =>
                     Get(traders', x) = last /\ x \notin C3_Forwarded]_vars

\* C3 witness: the two providers checked "t1" in overlapping passes with
\* timestamps 1 and 2, and only one of the two results was applied and
\* forwarded: the result of pass 1 came after that of pass 2
C3_Witness ==
    /\ filters = Filters
    /\ \A f \in Filters : checker[f].pc = "sleep" /\ checker[f].snap = <<"t1">>
    /\ {checker[f].at : f \in Filters} = {1, 2}
    /\ Get(traders, "t1") = 2
    /\ checkerOut = <<>>
    /\ Cardinality({i \in 1..Len(events) : events[i].type = "tradersChecked"}) = 1

\* ------------------------------------------------- claims on the re-check
\* this step resolves the promise of the running re-check
Decides == recheck.st = "running" /\ recheck'.st = "returned"

\* in this step filter f gets the answer for its last chunk
Finishes(f) == recheck.task[f].st = "query" /\ recheck'.task[f].st = "done"

\* the Liquidator stands right behind a re-check of failed traders
Decided ==
    /\ liquidator.pc = "top"
    /\ recheck.st = "returned"
    /\ recheck.traders # <<>>

\* in this step a task of the re-check that is resolved already gets an answer
LateAnswer ==
    /\ recheck.st = "returned" /\ recheck'.st = "returned"
    /\ recheck'.traders = recheck.traders
    /\ recheck' # recheck

LiquidationErrors(x) == Reported("error", "LiquidationError", x)

CheckErrors(x) == Reported("error", "CheckError", x)

\* C4: a trader whose liquidation failed stays in the set of liquidatable
\* traders during the pause and the re-check; when the re-check resolves and some
\* provider answered that the trader is liquidatable, the trader is still in the
\* set; and every call of liquidate takes the whole set, so the next one
\* includes the trader.
C4_FailedKeptForRetry ==
    /\ [](liquidator.pc \in {"pause", "recheck"} =>
             SeqSet(liquidator.failed) \subseteq SeqSet(liquidatableTraders))
    /\ [][/\ Decides => recheck'.yes \subseteq SeqSet(liquidatableTraders')
          /\ liquidator.pc # "liquidating" /\ liquidator'.pc = "liquidating" =>
                liquidator'.batch = liquidatableTraders]_vars

\* C4 witness: the liquidation of "t1" failed, the re-check kept "t1" without
\* any CheckError, and the next liquidation of "t1" succeeded without the
\* Checker forwarding "t1" in between: LiquidationError, then traderLiquidated
C4_Witness ==
    /\ filters = Filters
    /\ CheckErrors("t1") = {}
    /\ \E j \in LiquidationErrors("t1") : \E i \in Liquidated("t1") :
          /\ j < i
          /\ Liquidated("t1") = {i}
          /\ \A k \in Reported("tradersChecked", "", "t1") : k < j

\* C5: when the re-check resolves and the trader was answered false and never
\* true, the trader is removed from the set of liquidatable traders; a trader
\* enters the set only with a tradersChecked event that lists it; liquidate is
\* called with the set, and only traders of the call are reported liquidated.
C5_NotLiquidatableRemoved ==
    [][/\ Decides =>
             \A x \in recheck'.no \ recheck'.yes : x \notin SeqSet(liquidatableTraders')
       /\ \A x \in Traders :
             x \notin SeqSet(liquidatableTraders) /\ x \in SeqSet(liquidatableTraders') =>
                 /\ Len(events') = Len(events) + 1
                 /\ Len(events') \in Reported("tradersChecked", "", x)'
       /\ liquidator'.pc = "liquidating" =>
             SeqSet(liquidator'.batch) \subseteq SeqSet(liquidatableTraders')
       /\ \A x \in Traders :
             Liquidated(x)' # Liquidated(x) => x \in SeqSet(liquidator.batch)]_vars

\* C5 witness: one provider; the liquidation of "t1" failed, the re-check
\* answered false without an error, "t1" is out of the set and not liquidated
C5_Witness ==
    /\ filters = {"primary"}
    /\ recheck.st = "returned"
    /\ recheck.traders = <<"t1">>
    /\ recheck.no = {"t1"}
    /\ recheck.liquidatableChecksErrors = <<>>
    /\ liquidatableTraders = <<>>
    /\ liquidator.pc = "waiting"
    /\ LiquidationErrors("t1") # {}
    /\ Liquidated("t1") = {}

\* C6: when the re-check resolves because every provider failed on every chunk,
\* every trader whose liquidation failed is still in the set.
C6_AllFailedKept ==
    (/\ Decided
     /\ \A f \in filters : recheck.task[f].st = "done" /\ ~recheck.task[f].got)
        => SeqSet(recheck.traders) \subseteq SeqSet(liquidatableTraders)

\* C7: when the re-check resolves after some provider answered for some chunk, a
\* trader whose liquidation failed is removed only if a provider answered for
\* that trader and every answer for it was false (that no provider answered at
\* all is the case of C6).
C7_RemovedOnlyIfAnsweredFalse ==
    (Decided /\ \E f \in filters : recheck.task[f].got) =>
        \A x \in SeqSet(recheck.traders) :
            x \notin SeqSet(liquidatableTraders) =>
                x \in recheck.no /\ x \notin recheck.yes

\* C8: when the re-check resolves, either some provider is through all failed
\* traders without a failed chunk, or every provider is through.
C8_ReturnsOnCleanPassOrAll ==
    Decided =>
        \/ \E f \in filters : recheck.task[f].st = "done" /\ ~recheck.task[f].bad
        \/ \A f \in filters : recheck.task[f].st = "done"

\* C9: the re-check resolves as soon as a provider is through with an answer and
\* no later; a trader answered false and never true up to then is removed; an
\* answer that arrives after the re-check resolved changes neither the set of
\* liquidatable traders nor the Liquidator nor the events.
C9_FasterAnswerDecides ==
    [][/\ \A f \in filters :
             recheck.st = "running" /\ Finishes(f) /\ recheck'.task[f].got => Decides
       /\ Decides =>
             \A x \in recheck'.no \ recheck'.yes : x \notin SeqSet(liquidatableTraders')
       /\ LateAnswer \/ orphans' < orphans =>
             /\ liquidatableTraders' = liquidatableTraders
             /\ events' = events
             /\ liquidator' = liquidator]_vars

\* C9 witness: the re-check of "t1" resolved on the answer false of one provider
\* and removed "t1"; the other provider answered true afterwards (it deleted
\* "t1" from the Set of the resolved call) and "t1" is still out of the set
C9_Witness ==
    /\ filters = Filters
    /\ recheck.st = "returned"
    /\ recheck.traders = <<"t1">>
    /\ recheck.no = {"t1"} /\ recheck.yes = {}
    /\ \A f \in Filters : recheck.task[f].st = "done" /\ ~recheck.task[f].bad
    /\ recheck.nonLiquidatableTraders = {}
    /\ liquidatableTraders = <<>>
    /\ Liquidated("t1") = {}

\* C10: a provider that is through with nothing but failed chunks while another
\* one is not through yet does not resolve the re-check; when the re-check
\* resolves, the traders answered true are in the set, the CheckErrors are
\* reported in the order they occurred (unless stop() has aborted the session:
\* then nothing is reported), and for every re-checked trader the
\* LiquidationError is the latest event of the Liquidator about it.
C10_WaitsForSlowerProvider ==
    [][/\ \A f \in filters :
             (/\ recheck.st = "running"
              /\ Finishes(f)
              /\ ~recheck'.task[f].got
              /\ \E g \in filters : recheck'.task[g].st = "query") =>
                 /\ recheck'.st = "running"
                 /\ liquidatableTraders' = liquidatableTraders
                 /\ events' = events
                 /\ liquidator' = liquidator
       /\ Decides =>
             /\ recheck'.yes \subseteq SeqSet(liquidatableTraders')
             /\ ~Destroyed =>
                   events' = events \o
                      [i \in 1..Len(recheck'.liquidatableChecksErrors) |->
                          Event("error", "CheckError", recheck'.liquidatableChecksErrors[i])]
             /\ \A x \in SeqSet(recheck.traders) :
                   \E j \in LiquidationErrors(x) : \A i \in Liquidated(x) : i < j]_vars

\* C10 witness: the liquidation of "t1" failed, in the re-check one provider
\* failed and the other answered true, and the next liquidation of "t1"
\* succeeded: LiquidationError, CheckError, traderLiquidated in this order
C10_Witness ==
    /\ filters = Filters
    /\ \E j \in LiquidationErrors("t1") : \E c \in CheckErrors("t1") :
          \E i \in Liquidated("t1") :
            /\ j < c /\ c < i
            /\ Liquidated("t1") = {i}
            /\ \A k \in Reported("tradersChecked", "", "t1") : k < j

\* -------------------------------------------------- claims on the errors
\* C11 as stated: no CheckError of a re-check stays unreported. Once every
\* provider of the latest re-check is through, nothing reads its array of
\* CheckErrors any more, so all of them have been yielded to the reporter.
C11_NoSilentFailure ==
    (recheck.st = "returned" /\ \A f \in filters : recheck.task[f].st # "query") =>
        recheck.yielded = Len(recheck.liquidatableChecksErrors)

\* C11 amended: every error value is reported, but for the CheckErrors of a
\* re-check that arrive after the re-check resolved. A failed check chunk puts a
\* CheckError on the Checker's output and the adapter reports every CheckError
\* it takes from there; a Fetcher result is reported as tradersFetched or as an
\* error; every trader of a liquidate call is reported once, by a
\* LiquidationError or by traderLiquidated; a CheckError of a running re-check
\* is collected, and when the re-check resolves all collected ones are reported.
\* All this holds of a session until stop() aborts it.
C11_ErrorsReported ==
    [][~Destroyed =>
       /\ left'.checkFail < left.checkFail =>
             /\ Len(checkerOut') > Len(checkerOut)
             /\ checkerOut'[Len(checkerOut) + 1].err
       /\ (checkerOut # <<>> /\ checkerOut' = Tail(checkerOut)) /\ Head(checkerOut).err =>
             NewEvents = <<Event("error", "CheckError", Head(checkerOut).list)>>
       /\ left'.fetch < left.fetch =>
             /\ Len(NewEvents) = 1
             /\ \/ NewEvents[1].type = "tradersFetched"
                \/ NewEvents[1] = Event("error", "FetchError", <<>>)
       /\ liquidator.pc = "liquidating" /\ liquidator'.pc # "liquidating" =>
             /\ Len(NewEvents) = Len(liquidator.batch)
             /\ \A x \in SeqSet(liquidator.batch) :
                   \E i \in 1..Len(NewEvents) :
                      NewEvents[i] =
                         IF x \in SeqSet(liquidator'.failed)
                         THEN Event("error", "LiquidationError", <<x>>)
                         ELSE Event("traderLiquidated", "", <<x>>)
       /\ left'.recheckFail < left.recheckFail /\ recheck.st = "running" =>
             Len(recheck'.liquidatableChecksErrors) =
                 Len(recheck.liquidatableChecksErrors) + 1
       /\ Decides =>
             /\ recheck'.yielded = Len(recheck'.liquidatableChecksErrors)
             /\ Len(NewEvents) = recheck'.yielded
             /\ \A i \in 1..Len(NewEvents) :
                   NewEvents[i] =
                      Event("error", "CheckError", recheck'.liquidatableChecksErrors[i])]_vars

\* C11 witness: the liquidation of "t1" failed, both providers failed in the
\* re-check, and the LiquidationError and both CheckErrors are reported
C11_Witness ==
    /\ filters = Filters
    /\ recheck.st = "returned"
    /\ recheck.traders = <<"t1">>
    /\ recheck.yielded = 2
    /\ Len(recheck.liquidatableChecksErrors) = 2
    /\ Cardinality(CheckErrors("t1")) = 2
    /\ LiquidationErrors("t1") # {}

\* the positions of the error events
Errors == {i \in 1..Len(events) : events[i].type = "error"}

\* in this step the query of filter f in the latest re-check fails
RecheckFails(f) ==
    /\ left'.recheckFail < left.recheckFail
    /\ recheck'.task[f] # recheck.task[f]

\* filter g is through the latest re-check and got an answer
Succeeded(g) == recheck.task[g].st = "done" /\ recheck.task[g].got

\* C12: when one provider has answered the re-check and then another provider
\* fails, the failure emits nothing and leaves the set of liquidatable traders
\* alone: the CheckError is only collected. When the re-check resolves without a
\* CheckError collected, it emits nothing, and the traders answered true stay in
\* the set for the next call of liquidate.
C12_LateCheckErrorNotEmitted ==
    [][/\ \A f \in filters :
             RecheckFails(f) /\ (\E g \in filters \ {f} : Succeeded(g)) =>
                /\ LateAnswer
                /\ events' = events
                /\ liquidatableTraders' = liquidatableTraders
                /\ Len(recheck'.liquidatableChecksErrors) =
                      Len(recheck.liquidatableChecksErrors) + 1
                /\ recheck'.yielded = recheck.yielded
       /\ Decides /\ recheck'.liquidatableChecksErrors = <<>> =>
             /\ events' = events
             /\ recheck'.yes \subseteq SeqSet(liquidatableTraders')]_vars

\* C12 witness: the liquidation of "t1" failed, one provider answered true, the
\* other failed afterwards, and "t1" was liquidated by the next call without
\* being forwarded again; the LiquidationError is the only error event
C12_Witness ==
    /\ filters = Filters
    /\ left.recheckFail = MaxRecheckFailures - 1
    /\ Cardinality(Errors) = 1
    /\ \E j \in LiquidationErrors("t1") : \E i \in Liquidated("t1") :
          /\ j < i
          /\ Liquidated("t1") = {i}
          /\ \A k \in Reported("tradersChecked", "", "t1") : k < j

\* C13: an error stops nothing. A FetchError changes no processor; after a
\* failed check chunk the Checker's pass goes on with the next chunk or sleeps
\* until the next pass, and its later passes are not used up; after a failed
\* liquidation the Liquidator pauses and re-checks; the re-check never hangs (as
\* long as the Liquidator awaits it, some provider is still to answer, and the
\* last answer resolves it), and when it resolves, with CheckErrors or without,
\* the Liquidator is back at its loop head. Nor does an error end the session:
\* no step that emits an error event changes isRunning or the abort signal.
C13_ErrorsDoNotStop ==
    /\ [](liquidator.pc = "recheck" => Running(recheck) # {})
    /\ [][~Destroyed =>
          /\ \A f \in filters :
                left'.checkFail < left.checkFail /\ checker'[f] # checker[f] =>
                   /\ checker'[f].pc \in {"query", "sleep"}
                   /\ checker'[f].n = checker[f].n
          /\ left'.fetch < left.fetch /\ NewEvents = <<Event("error", "FetchError", <<>>)>> =>
                UNCHANGED <<traders, checker, checkerOut, liquidatableTraders,
                            liquidator, recheck>>
          /\ liquidator.pc = "liquidating" /\ liquidator' # liquidator
                /\ liquidator'.failed # <<>> =>
                liquidator'.pc = "pause"
          /\ Decides => liquidator'.pc = "top"
          /\ (\E i \in 1..Len(NewEvents) : NewEvents[i].type = "error") =>
                bot' = bot]_vars

\* C13 witness: the liquidation of "t1" failed, then both providers failed in
\* the re-check, and after the three error events a pass of the Checker
\* reported tradersChecked
C13_Witness ==
    /\ filters = Filters
    /\ \E j \in LiquidationErrors("t1") :
          \E k1, k2 \in CheckErrors("t1") :
             \E m \in 1..Len(events) :
                /\ j < k1 /\ k1 < k2 /\ k2 < m
                /\ events[m].type = "tradersChecked"

\* ------------------------------------------------ claims on the Check Filter
\* C14: in a call of the filter, a chunk whose query failed yields a CheckError
\* with exactly that chunk's traders, the offset k * chunkSize of the chunk, the
\* length of the whole list and the cause thrown; a chunk whose query was
\* answered yields the mapping of its traders to the answers; after either the
\* loop goes on, and the generator returns only behind the last chunk.
C14_ChunkIsolation ==
    /\ \A i \in 1..Len(run.results) :
          LET k == i - 1
              first == k * run.chunkSize + 1
              last == Min((k + 1) * run.chunkSize, Len(run.traders))
              itsTraders == [j \in 1..(last - first + 1) |-> run.traders[first + j - 1]]
          IN IF run.answers[i].ok
             THEN /\ ~run.results[i].err
                  /\ Len(run.results[i].entries) = Len(itsTraders)
                  /\ \A j \in 1..Len(itsTraders) :
                        /\ run.results[i].entries[j].k = itsTraders[j]
                        /\ run.results[i].entries[j].v = run.answers[i].areLiquidatable[j]
             ELSE /\ run.results[i].err
                  /\ run.results[i].chunk = itsTraders
                  /\ run.results[i].offset = k * run.chunkSize
                  /\ run.results[i].total = Len(run.traders)
                  /\ run.results[i].cause = run.answers[i].cause
    /\ run.pc = "done" => Len(run.results) * run.chunkSize >= Len(run.traders)
    /\ run.pc = "next" /\ Len(run.results) * run.chunkSize < Len(run.traders) =>
          ENABLED FilterQuery

\* C14 witness: four traders in chunks of two; the first chunk failed, the
\* second was queried and answered, and the generator returned
C14_Witness ==
    /\ run.pc = "done"
    /\ run.traders = <<"t1", "t2", "t3", "t4">>
    /\ run.chunkSize = 2
    /\ run.results[1].err /\ run.results[1].chunk = <<"t1", "t2">>
    /\ ~run.results[2].err
    /\ run.results[2].entries = <<[k |-> "t3", v |-> TRUE], [k |-> "t4", v |-> FALSE]>>

\* the least number of chunks of c traders that hold n traders
Ceil(n, c) == CHOOSE k \in 0..n : k * c >= n /\ (k = 0 \/ (k - 1) * c < n)

\* C15: a call of the filter on n traders with chunk size c issues its queries
\* in chunk order, the i-th for traders i*c .. min((i+1)*c, n) - 1 (from 0), and
\* yields one result per query in the same order; it returns after exactly
\* ceil(n / c) queries; a result object has exactly the traders of its chunk as
\* keys, in order, the i-th with the i-th answer; for the empty list there is no
\* query and no result.
C15_ChunkedQueries ==
    LET n == Len(run.traders)
        c == run.chunkSize
    IN /\ Len(run.queries) <= Ceil(n, c)
       /\ run.pc = "done" => Len(run.queries) = Ceil(n, c)
       /\ Len(run.results) = IF run.pc = "query" THEN Len(run.queries) - 1
                             ELSE Len(run.queries)
       /\ \A i \in 0..(Len(run.queries) - 1) :
             LET upto == IF (i + 1) * c < n THEN (i + 1) * c ELSE n IN
                /\ Len(run.queries[i + 1]) = upto - i * c
                /\ \A j \in 1..(upto - i * c) : run.queries[i + 1][j] = run.traders[i * c + j]
       /\ \A i \in 1..Len(run.results) :
             ~run.results[i].err =>
                /\ KeysOf(run.results[i].entries) = run.queries[i]
                /\ \A j \in 1..Len(run.queries[i]) :
                      run.results[i].entries[j].v = run.answers[i].areLiquidatable[j]
       /\ n = 0 => run.queries = <<>> /\ run.results = <<>>

\* C15 witness: three traders with chunk size two: two queries, the second for
\* the one trader left, both answered, and the generator returned
C15_Witness ==
    /\ run.pc = "done"
    /\ run.traders = <<"t2", "t1", "t3">>
    /\ run.chunkSize = 2
    /\ run.queries = <<<<"t2", "t1">>, <<"t3">>>>
    /\ Len(run.results) = 2
    /\ run.results[2].entries = <<[k |-> "t3", v |-> TRUE]>>

\* --------------------------------------------- claims on the liquidations
\* the first of the positions S
First(S) == CHOOSE i \in S : \A j \in S : i <= j

\* the positions of the tradersChecked events that list x
Discovered(x) == Reported("tradersChecked", "", x)

\* the place of x in the list s
Pos(s, x) == CHOOSE i \in 1..Len(s) : s[i] = x

\* C16: with more traders than the chunk size, a pass forwards of every chunk
\* exactly the traders answered true (whose last check is not as recent as the
\* pass); a trader is reported liquidated only after a tradersChecked event
\* listed it; the set of liquidatable traders keeps the order of discovery (a
\* newly forwarded trader goes behind the ones waiting, and no step reorders
\* them), a liquidate call takes the set in that order and its traderLiquidated
\* events come in the order of the call; so of two traders discovered by
\* different events of a session, the one discovered first is reported
\* liquidated first, unless its liquidation failed. (A session that stop() has
\* aborted forwards and reports nothing any more.)
C16_LiquidatedInOrderOfDiscovery ==
    /\ [][\A f \in filters :
            \A areLiquidatable \in
                  [1..Len(Chunk(checker[f].snap, checker[f].idx)) -> BOOLEAN] :
               ~Destroyed /\ CheckerReturn(f, TRUE, areLiquidatable) =>
                  LET chunkOfTraders == Chunk(checker[f].snap, checker[f].idx) IN
                     C3_Forwarded \cap Traders =
                        {chunkOfTraders[i] : i \in
                            {j \in 1..Len(chunkOfTraders) :
                                /\ areLiquidatable[j]
                                /\ chunkOfTraders[j] \in Traders
                                /\ ~IsStale(Get(traders, chunkOfTraders[j]), checker[f].at)}}]_vars
    /\ [](\A x \in Traders :
            Liquidated(x) # {} =>
               Discovered(x) # {} /\ First(Discovered(x)) < First(Liquidated(x)))
    /\ [][LET old == SeqSet(liquidatableTraders)
              new == SeqSet(liquidatableTraders')
          IN /\ \A x, y \in old \cap new :
                   Pos(liquidatableTraders, x) < Pos(liquidatableTraders, y) =>
                      Pos(liquidatableTraders', x) < Pos(liquidatableTraders', y)
             /\ \A x \in old \cap new : \A y \in new \ old :
                   Pos(liquidatableTraders', x) < Pos(liquidatableTraders', y)
             /\ liquidator.pc # "liquidating" /\ liquidator'.pc = "liquidating" =>
                   liquidator'.batch = liquidatableTraders
             /\ liquidator.pc = "liquidating" /\ liquidator'.pc # "liquidating" =>
                   \A i, j \in 1..Len(NewEvents) :
                      (/\ i < j
                       /\ NewEvents[i].type = "traderLiquidated"
                       /\ NewEvents[j].type = "traderLiquidated") =>
                         Pos(liquidator.batch, NewEvents[i].traders[1])
                            < Pos(liquidator.batch, NewEvents[j].traders[1])]_vars
    /\ [](\A x, y \in Traders :
            (/\ Stopped = {}
             /\ Discovered(x) # {} /\ Liquidated(y) # {}
             /\ First(Discovered(x)) < First(Discovered(y))
             /\ LiquidationErrors(x) = {}) =>
               Liquidated(x) # {} /\ First(Liquidated(x)) < First(Liquidated(y)))

\* C16 witness: one pass over two traders with chunk size 1 answered true for
\* both chunks; both were liquidated without an error, "t1" of the first chunk
\* before "t2" of the second
C16_Witness ==
    /\ Len(traders) > ChunkSize
    /\ KeysOf(traders) = <<"t1", "t2">>
    /\ Errors = {}
    /\ Cardinality(Deliveries) = 1
    /\ Liquidated("t1") # {} /\ Liquidated("t2") # {}
    /\ First(Discovered("t1")) < First(Discovered("t2"))
    /\ First(Liquidated("t1")) < First(Liquidated("t2"))

\* ----------------------------------------------- claims on the orchestrator
\* in this step start() is called
StartCalled == left'.start < left.start

\* in this step stop() is called
StopCalled == left'.stop < left.stop

\* in this step a stop() call returns
StopReturns == bot'.stop < bot.stop /\ bot'.last = "stopReturned"

\* C17: at most one pipeline is executing at any time; start() succeeds only
\* when isRunning is null and no pipeline is executing; start() while isRunning
\* is set throws and changes no state of the orchestrator or of the
\* processors; stop() while isRunning is null throws and changes none either.
C17_OneSession ==
    /\ [](bot.live <= 1)
    /\ [][/\ StartCalled /\ bot.isRunning # "null" =>
                /\ bot' = [bot EXCEPT !.last = "startThrew"]
                /\ UNCHANGED <<now, traders, checker, checkerOut, liquidatableTraders,
                               liquidator, recheck, orphans, events, filters>>
          /\ StartCalled /\ bot'.last = "started" =>
                bot.isRunning = "null" /\ bot.live = 0 /\ bot'.live = 1
          /\ StopCalled /\ bot.isRunning = "null" =>
                /\ bot' = [bot EXCEPT !.last = "stopThrew"]
                /\ UNCHANGED <<now, traders, checker, checkerOut, liquidatableTraders,
                               liquidator, recheck, orphans, events, filters>>]_vars

\* C17 witness: start() threw while the session was running, the session was
\* stopped, and then a second stop() threw
C17_Witness ==
    /\ bot.last = "stopThrew"
    /\ bot.isRunning = "null"
    /\ left.start = MaxStarts - 1
    /\ left.stop = 0
    /\ Cardinality(Stopped) = 1

\* C18: stop() on a running session aborts the signal and is suspended; it
\* returns only when the pipeline has ended, botStopped is the latest event and
\* the listeners are removed, and on its return isRunning is null; with
\* isRunning null a start() succeeds and a stop() throws.
C18_StopReturnsIdle ==
    [][/\ StopCalled /\ bot.isRunning # "null" =>
             bot'.aborted /\ bot'.stop = bot.stop + 1 /\ bot'.isRunning = bot.isRunning
       /\ StopReturns =>
             /\ bot.ended /\ bot.live = 0
             /\ events # <<>> /\ events[Len(events)].type = "botStopped"
             /\ ~bot.listeners
             /\ bot'.isRunning = "null"
             /\ bot'.last = "stopReturned"
       /\ StartCalled /\ bot.isRunning = "null" =>
             bot'.last = "started" /\ bot'.isRunning = "promise" /\ ~bot'.aborted
       /\ StopCalled /\ bot.isRunning = "null" => bot'.last = "stopThrew"]_vars

\* C18 witness: a session was stopped, stop() returned, and the start() that
\* followed succeeded: a new session is running
C18_Witness ==
    /\ bot.last = "started"
    /\ bot.isRunning = "promise"
    /\ bot.live = 1
    /\ ~bot.aborted
    /\ Cardinality(Stopped) = 1

\* C19: botStopped is emitted by the step that ends an aborted pipeline and by
\* no other, once; and as long as no new session is started it stays the latest
\* event, whatever the generators of the stopped session still do.
C19_BotStoppedOnceAndLast ==
    /\ [][/\ ~bot.ended /\ bot'.ended /\ ~bot.failed =>
                bot.aborted /\ NewEvents = <<Event("botStopped", "", <<>>)>>
          /\ Stopped' # Stopped =>
                ~bot.ended /\ bot'.ended /\ Cardinality(Stopped') = Cardinality(Stopped) + 1]_vars
    /\ [](bot.ended /\ ~bot.failed =>
            events # <<>> /\ events[Len(events)].type = "botStopped")

\* C19 witness: the session was aborted while a liquidate call was in flight;
\* the call returned afterwards, the Liquidator ended at its yield, and
\* botStopped is the latest event
C19_Witness ==
    /\ bot.ended
    /\ liquidator.pc = "ended"
    /\ Cardinality(Stopped) = 1
    /\ events[Len(events)].type = "botStopped"

\* in this step a processor issues a call to a provider or to the exchange
IssuesCall ==
    \/ \E f \in filters :
          /\ checker'[f].pc = "query"
          /\ checker[f].pc # "query" \/ checker'[f].idx # checker[f].idx
    \/ liquidator.pc # "liquidating" /\ liquidator'.pc = "liquidating"
    \/ liquidator.pc = "pause" /\ liquidator'.pc = "recheck"
    \/ \E f \in filters :
          /\ recheck'.task[f].st = "query"
          /\ recheck.task[f].st = "query"
          /\ recheck'.task[f].idx # recheck.task[f].idx

\* C20 as stated: once stop() has returned and until the next start(), no
\* processor issues a new isLiquidatable query or a new liquidate call.
C20_NoCallAfterStop ==
    [][bot.isRunning = "null" /\ bot'.isRunning = "null" => ~IssuesCall]_vars

\* --------------------------------------------------- claims on join()
\* in this step join() is called
JoinCalled == left'.join < left.join

\* in this step a join() call returns behind its await
JoinReturns == bot'.join < bot.join /\ bot'.last = "joinReturned"

\* C21: join() never aborts. A join() call on a running session changes
\* neither the abort signal nor the pipeline nor any processor nor the events: it
\* is suspended; the signal is aborted by a stop() call only, and the pipeline
\* ends only after the signal was aborted or a stage threw; a join() call
\* returns only when the pipeline has ended, and on its return isRunning is
\* null; a join() call while isRunning is null returns at once and changes
\* nothing.
C21_JoinDoesNotCancel ==
    [][/\ JoinCalled /\ bot.isRunning # "null" =>
             /\ bot' = [bot EXCEPT !.join = @ + 1, !.last = "joinCalled"]
             /\ UNCHANGED <<now, traders, checker, checkerOut, liquidatableTraders,
                            liquidator, recheck, orphans, events, filters>>
       /\ ~bot.aborted /\ bot'.aborted => StopCalled
       /\ ~bot.ended /\ bot'.ended => bot.aborted \/ bot.failed
       /\ JoinReturns =>
             /\ bot.ended /\ bot.live = 0
             /\ bot'.isRunning = "null"
       /\ JoinCalled /\ bot.isRunning = "null" =>
             /\ bot' = [bot EXCEPT !.last = "joinIdle"]
             /\ UNCHANGED <<now, traders, checker, checkerOut, liquidatableTraders,
                            liquidator, recheck, orphans, events, filters>>]_vars

\* C21 witness: join() was suspended on a session that liquidated "t1"; a
\* stop() call ended the session, and join() returned after stop() did
C21_Witness ==
    /\ bot.last = "joinReturned"
    /\ bot.isRunning = "null"
    /\ bot.join = 0 /\ bot.stop = 0
    /\ Liquidated("t1") # {}
    /\ Cardinality(Stopped) = 1

\* in this step the promise of the pipeline settles
PipelineEnds == ~bot.ended /\ bot'.ended

\* in this step a call suspended at await isRunning goes on
AwaitEnds == bot'.join < bot.join \/ bot'.stop < bot.stop

\* C22: a pipeline that ends after the abort, with no error thrown before it,
\* emits botStopped (and nothing else) and its promise resolves: the stop() and
\* join() calls that await it return. A pipeline that ends with a thrown error
\* emits nothing and keeps the listeners, its promise rejects: the calls that
\* await it reject; and from the thrown error on no botStopped is ever emitted.
C22_AbortIsTheNormalStop ==
    [][/\ PipelineEnds /\ ~bot.failed =>
             /\ bot.aborted
             /\ NewEvents = <<Event("botStopped", "", <<>>)>>
             /\ ~bot'.failed
       /\ PipelineEnds /\ bot.failed =>
             /\ events' = events
             /\ bot'.listeners = bot.listeners
             /\ bot'.failed
       /\ AwaitEnds =>
             /\ bot.ended
             /\ bot'.last \in (IF bot.failed THEN {"joinRejected", "stopRejected"}
                                ELSE {"joinReturned", "stopReturned"})
       /\ bot.failed => bot'.failed /\ Stopped' = Stopped]_vars

\* C22 witness: a stage threw while the session was running after a Fetcher
\* delivery; the pipeline ended, the join() call that awaited it rejected, and
\* there is no botStopped event
C22_Witness ==
    /\ bot.failed /\ bot.ended
    /\ ~bot.aborted
    /\ bot.last = "joinRejected"
    /\ Deliveries # {}
    /\ Stopped = {}

\* ------------------------------------------- claims on the ActiveTraderSet
\* the Fetcher events
FetcherEvents ==
    {i \in 1..Len(events) :
        events[i].type = "tradersFetched" \/ events[i].kind = "FetchError"}

\* the latest result of the Fetcher was a FetchError
FetchFailedLast ==
    /\ FetcherEvents # {}
    /\ \A i \in FetcherEvents :
          (\A j \in FetcherEvents : j <= i) => events[i].kind = "FetchError"

\* in this step filter f's generator starts a pass
PassStarts(f) == checker'[f].n < checker[f].n

\* C23: a result of the Fetcher emits one event; when it is a FetchError the
\* event is the error and nothing reaches the Checker: the traders with their
\* last-checked-at, the generators and the output of the Checker and the
\* Liquidator are unchanged. A pass always starts over the traders as they
\* are, and a sleeping generator starts its next pass over them also when the
\* latest Fetcher result was a FetchError.
C23_FetchErrorNotForwarded ==
    /\ [][/\ left'.fetch < left.fetch /\ NewEvents = <<Event("error", "FetchError", <<>>)>> =>
                UNCHANGED <<traders, checker, checkerOut, liquidatableTraders,
                            liquidator, recheck, orphans>>
          /\ left'.fetch < left.fetch =>
                \/ NewEvents = <<Event("error", "FetchError", <<>>)>>
                \/ /\ Len(NewEvents) = 1
                   /\ NewEvents[1].type = "tradersFetched"
                   /\ KeysOf(traders') = NewEvents[1].traders
          /\ \A f \in filters :
                PassStarts(f) => checker'[f].snap = KeysOf(traders) /\ traders' = traders]_vars
    /\ [](\A f \in filters :
            (/\ FetchFailedLast
             /\ ~Destroyed /\ ~Pending
             /\ checker[f].pc = "sleep" /\ checker[f].n > 0
             /\ traders # <<>>
             /\ now < MaxTime) => ENABLED CheckerLoop(f))

\* C23 witness: "t1" was delivered and checked in a pass at time 1; then the
\* Fetcher failed; the traders still hold "t1", and a pass at time 2 checked it
\* again and reported behind the FetchError
C23_Witness ==
    /\ filters = {"primary"}
    /\ Cardinality(Deliveries) = 1
    /\ FetchFailedLast
    /\ KeysOf(traders) = <<"t1">>
    /\ Get(traders, "t1") = 2
    /\ \E j \in FetcherEvents : \E i, k \in Discovered("t1") :
          /\ events[j].kind = "FetchError"
          /\ i < j /\ j < k

\* ------------------------------------------------ claims on the events
\* what the consumer got and what is stored for it, in this order
Delivered == eventsIterator.got \o eventsIterator.unconsumedEvents

\* the events emitted since the consumer's first next()
EmittedSince == SubSeq(events, eventsIterator.from + 1, Len(events))

\* the positions of the botStopped events behind the consumer's first next()
StoppedSince == {i \in Stopped : i > eventsIterator.from}

\* the position of the first of them, or the end of the log when there is none
UntilStopped == IF StoppedSince = {} THEN Len(events) ELSE First(StoppedSince)

\* C24 as stated: a consumer receives every event emitted after it began to
\* iterate, once and in the order of emission: what it got and what is stored
\* for it are together the events emitted since its first next().
C24_EveryEventDelivered ==
    eventsIterator.pc # "off" => Delivered = EmittedSince

\* C24 amended: the log only grows at its end, one stage's outputs are
\* reported in the order the stage produced them (the adapter reports the
\* oldest item of the Checker's output; the Liquidator's results are reported
\* in the step that yields them), and a consumer receives, once each and in the
\* order of emission, the events emitted after its first next() up to and
\* including the next botStopped; no later event is stored for it.
C24_DeliveredUntilStopped ==
    /\ [](eventsIterator.pc # "off" =>
            /\ Delivered = SubSeq(events, eventsIterator.from + 1, UntilStopped)
            /\ (eventsIterator.pc = "removed") = (StoppedSince # {}))
    /\ [][/\ events' = events \o NewEvents
          /\ (checkerOut # <<>> /\ checkerOut' = Tail(checkerOut)) =>
                NewEvents = <<Event(IF Head(checkerOut).err THEN "error" ELSE "tradersChecked",
                                    IF Head(checkerOut).err THEN "CheckError" ELSE "",
                                    Head(checkerOut).list)>>
          /\ eventsIterator'.got # eventsIterator.got =>
                /\ eventsIterator.unconsumedEvents # <<>>
                /\ eventsIterator'.got =
                      Append(eventsIterator.got, Head(eventsIterator.unconsumedEvents))
                /\ eventsIterator'.unconsumedEvents = Tail(eventsIterator.unconsumedEvents)
                /\ events' = events]_vars

\* C24 witness: the consumer started before the first event and has got the
\* whole session: tradersFetched, tradersChecked, botStopped; the session
\* started afterwards has emitted an event that is not stored for it
C24_Witness ==
    /\ eventsIterator.pc = "removed"
    /\ eventsIterator.from = 0
    /\ eventsIterator.unconsumedEvents = <<>>
    /\ Len(eventsIterator.got) >= 3
    /\ eventsIterator.got[1].type = "tradersFetched"
    /\ eventsIterator.got[2].type = "tradersChecked"
    /\ eventsIterator.got[Len(eventsIterator.got)].type = "botStopped"
    /\ Len(events) > Len(eventsIterator.got)

\* C25: the events stored for a consumer never hold up the pipeline. Whatever
\* the consumer has left unconsumed, a result of the Fetcher is taken by its
\* adapter, the adapter takes the next item of the Checker's output, the
\* Checker starts its pass and takes an answer, the Liquidator calls liquidate
\* and takes its results, whenever the pipeline itself is that far; and no step
\* of the pipeline takes anything from the consumer: a step that emits puts its
\* events behind the unconsumed ones and leaves alone what the consumer got.
C25_PipelineNeverWaits ==
    /\ [](eventsIterator.pc = "on" /\ ~Destroyed =>
            /\ left.fetch > 0 /\ ~Pending =>
                  /\ ENABLED FetchFail
                  /\ \A activeTraders \in FetchLists : ENABLED FetchDeliver(activeTraders)
            /\ checkerOut # <<>> => ENABLED CheckerAdapter
            /\ \A f \in filters :
                  /\ checker[f].pc = "woken" /\ checker[f].n > 0 => ENABLED CheckerResume(f)
                  /\ checker[f].pc = "query" /\ ~Pending => ENABLED CheckerAnswer(f)
            /\ liquidator.pc = "woken" /\ left.liq > 0 => ENABLED LiquidateCall
            /\ liquidator.pc = "liquidating" /\ ~Pending => ENABLED LiquidateAnswer)
    /\ [][eventsIterator'.got = eventsIterator.got /\ eventsIterator.pc = "on" =>
            /\ eventsIterator'.unconsumedEvents =
                  eventsIterator.unconsumedEvents \o NewEvents
            /\ eventsIterator'.pc = "on" \/ Stopped' # Stopped]_vars

\* C25 witness: the consumer made its first next() before the first event
\* and never got an event; the Fetcher delivered, the Checker made its pass,
\* the Liquidator liquidated "t1", and the three events are stored
C25_Witness ==
    /\ eventsIterator.pc = "on"
    /\ eventsIterator.from = 0
    /\ eventsIterator.got = <<>>
    /\ Len(eventsIterator.unconsumedEvents) >= 3
    /\ eventsIterator.unconsumedEvents = events
    /\ Liquidated("t1") # {}
    /\ liquidator.pc = "waiting"

\* in this step the Fetcher delivers a trader list to the Checker
Delivers == left'.fetch < left.fetch /\ NewEvents # <<>> /\ NewEvents[1].type = "tradersFetched"

\* the list of the latest delivery so far
LastDelivered ==
    events[CHOOSE i \in Deliveries : \A j \in Deliveries : j <= i].traders

\* C26 as stated: a delivery of the list L makes the keys of traders exactly
\* L; a trader of L that was a key before keeps its last-checked-at, a trader of
\* L that was no key gets null, a trader not in L is no key afterwards; and a
\* trader of L that the delivery before did not contain starts with null.
C26_ReplacedWholesale ==
    [][Delivers =>
         LET L == NewEvents[1].traders IN
            /\ KeysOf(traders') = L
            /\ \A x \in SeqSet(L) :
                  Get(traders', x) = IF x \in SeqSet(KeysOf(traders))
                                     THEN Get(traders, x) ELSE Null
            /\ \A x \in Keys \ SeqSet(L) : Get(traders', x) = Undefined
            /\ \A x \in SeqSet(L) :
                  Deliveries # {} /\ x \notin SeqSet(LastDelivered) =>
                     Get(traders', x) = Null]_vars

\* C27 as stated: from the first delivery of a session on, the keys of traders
\* are the traders of the latest delivered list: no check result adds a key or
\* removes one. (Stated for the keys that are trader addresses.)
C27_KeysAreLatestDelivery ==
    Deliveries # {} /\ Stopped = {} =>
        SeqSet(KeysOf(traders)) \cap Traders = SeqSet(LastDelivered)

\* ------------------------------------------------ claims on the forwarding
\* the positions of the tradersChecked events
Checked == {i \in 1..Len(events) : events[i].type = "tradersChecked"}

\* the traders of filter f's chunk in flight that the answers make newly
\* liquidatable, and the ones whose last check is older than the pass
Fresh(f) ==
    LET chunkOfTraders == Chunk(checker[f].snap, checker[f].idx)
    IN {i \in 1..Len(chunkOfTraders) :
           ~IsStale(Get(traders, chunkOfTraders[i]), checker[f].at)}

\* C28 amended: the Checker forwards a list per answered chunk, empty or not.
\* When the provider answers a chunk and some trader of the chunk was not
\* checked as recently as the pass, the generator puts exactly one list on the
\* output: the traders of the chunk answered true among those, in chunk order,
\* which may be none; when every trader of the chunk is stale it puts nothing.
\* The adapter reports every list by one tradersChecked event and writes it to
\* the Liquidator, where an empty list changes nothing. (All this of a session
\* that is not aborted.)
C28_ListPerAnsweredChunk ==
    [][~Destroyed =>
       /\ \A f \in filters :
             \A areLiquidatable \in
                   [1..Len(Chunk(checker[f].snap, checker[f].idx)) -> BOOLEAN] :
                CheckerReturn(f, TRUE, areLiquidatable) =>
                   LET chunkOfTraders == Chunk(checker[f].snap, checker[f].idx)
                       new == SubSeq(checkerOut', Len(checkerOut) + 1, Len(checkerOut'))
                   IN IF Fresh(f) = {}
                      THEN new = <<>>
                      ELSE /\ Len(new) = 1
                           /\ ~new[1].err
                           /\ new[1].list =
                                 Without(chunkOfTraders,
                                         {chunkOfTraders[i] : i \in
                                            {j \in 1..Len(chunkOfTraders) :
                                                j \notin Fresh(f) \/ ~areLiquidatable[j]}})
       /\ (checkerOut # <<>> /\ checkerOut' = Tail(checkerOut)) /\ ~Head(checkerOut).err =>
             /\ NewEvents = <<Event("tradersChecked", "", Head(checkerOut).list)>>
             /\ SeqSet(liquidatableTraders') =
                   SeqSet(liquidatableTraders) \cup SeqSet(Head(checkerOut).list)
             /\ Head(checkerOut).list = <<>> =>
                   liquidatableTraders' = liquidatableTraders /\ liquidator' = liquidator]_vars

\* C28 witness: one pass over "t1" and "t2" with chunk size 1: the first chunk
\* was answered false and reported by a tradersChecked event with the empty
\* list, the second was answered true and reported by one with "t2"
C28_Witness ==
    /\ KeysOf(traders) = <<"t1", "t2">>
    /\ Cardinality(Deliveries) = 1
    /\ now = 1
    /\ checker["primary"].pc = "sleep" /\ checker["primary"].at = 1
    /\ filters = {"primary"}
    /\ \E i, j \in Checked :
          /\ Checked = {i, j}
          /\ i < j
          /\ events[i].traders = <<>>
          /\ events[j].traders = <<"t2">>

\* C28 as stated: the Checker forwards a list only when it is not empty, so no
\* tradersChecked event has an empty list and the adapter never writes an empty
\* list to the Liquidator; and a pass forwards one list, behind its last chunk,
\* so a step of a pass that has chunks left puts no list on the output.
C28_OnlyNonEmptyForwarded ==
    /\ [](\A i \in Checked : events[i].traders # <<>>)
    /\ [](\A i \in 1..Len(checkerOut) : ~checkerOut[i].err => checkerOut[i].list # <<>>)
    /\ [][\A f \in filters :
            (/\ checker[f].pc = "query"
             /\ checker'[f].pc = "query"
             /\ checker'[f].idx = checker[f].idx + 1) =>
                \A i \in (Len(checkerOut) + 1)..Len(checkerOut') : checkerOut'[i].err]_vars

\* ------------------------------------------------- claims on the wake-up
\* C29 as stated: no wake-up is lost. The step that makes the traders
\* non-empty wakes every generator of the Checker that is suspended on the
\* empty traders, and the step that makes the set of liquidatable traders
\* non-empty wakes the suspended Liquidator; so a generator is never left
\* suspended beside a non-empty set.
C29_NoLostWakeUp ==
    /\ [][/\ traders = <<>> /\ traders' # <<>> =>
                \A f \in filters :
                   checker[f].pc = "waiting" => checker'[f].pc = "woken"
          /\ liquidatableTraders = <<>> /\ liquidatableTraders' # <<>> =>
                (liquidator.pc = "waiting" => liquidator'.pc = "woken")]_vars
    /\ [](\A f \in filters : checker[f].pc = "waiting" => traders = <<>>)
    /\ [](liquidator.pc = "waiting" => liquidatableTraders = <<>>)

\* ------------------------------------------------- claims on the batch
\* no element occurs twice in s
Distinct(s) == \A i, j \in 1..Len(s) : i # j => s[i] # s[j]

\* C30: the set of liquidatable traders holds every trader once, however
\* often it was forwarded; a liquidate call takes exactly the set as it is at
\* the call, and the set is not empty then; so the batch of every call is
\* not empty and names no trader twice.
C30_BatchIsTheSet ==
    /\ [](Distinct(liquidatableTraders))
    /\ [](liquidator.pc = "liquidating" =>
            liquidator.batch # <<>> /\ Distinct(liquidator.batch))
    /\ [][liquidator.pc # "liquidating" /\ liquidator'.pc = "liquidating" =>
            /\ liquidatableTraders # <<>>
            /\ liquidator'.batch = liquidatableTraders
            /\ liquidatableTraders' = liquidatableTraders]_vars

\* C30 witness: "t1" was forwarded by two tradersChecked events, its first
\* liquidation failed, and the batch of the second call holds it once
C30_Witness ==
    /\ liquidator.pc = "liquidating"
    /\ liquidator.batch = <<"t1">>
    /\ Cardinality(Discovered("t1")) >= 2
    /\ LiquidationErrors("t1") # {}
    /\ Liquidated("t1") = {}

\* ------------------------------------------- claims on the provider loops
\* C31: the loops of the providers do not wait for each other. A delivery
\* that leaves traders wakes every waiting loop, not one of them; a step of
\* one loop leaves the position of every other loop as it is; while another
\* provider has not returned from its query, a loop that is woken can start
\* its pass and a loop whose query is in flight can take its answer; and
\* what that answer changes (timestamps, forwarded list) is computed from
\* the traders and the loop's own pass alone.
C31_IndependentLoops ==
    /\ [][Delivers /\ traders' # <<>> =>
            \A f \in filters : checker[f].pc = "waiting" => checker'[f].pc = "woken"]_vars
    /\ [][\A g \in filters :
            checker'[g] # checker[g] /\ left'.fetch = left.fetch /\ bot' = bot =>
                \A f \in filters \ {g} : checker'[f] = checker[f]]_vars
    /\ [](\A g \in filters : \A f \in filters \ {g} :
            checker[f].pc = "query" =>
                /\ checker[g].pc = "woken" /\ checker[g].n > 0 => ENABLED CheckerResume(g)
                /\ checker[g].pc = "query" /\ ~Pending => ENABLED CheckerAnswer(g))
    /\ [][\A g \in filters :
            checker[g].pc = "query" /\ checker'[g] # checker[g] /\ bot' = bot
            /\ ~Destroyed =>
                \E ok \in BOOLEAN :
                    \E areLiquidatable \in
                          [1..Len(Chunk(checker[g].snap, checker[g].idx)) -> BOOLEAN] :
                        LET r == CheckerStep(traders, checker[g], ok, areLiquidatable)
                        IN /\ traders' = r.traders
                           /\ checkerOut' = checkerOut \o r.yielded]_vars

\* C31 witness: the primary provider never returned from the first query of
\* its pass; the support provider finished its pass, its timestamp is the
\* one of "t1", and the list with "t1" it forwarded was reported
C31_Witness ==
    /\ filters = Filters
    /\ checker["primary"].pc = "query"
    /\ checker["primary"].idx = 0
    /\ checker["primary"].snap # <<>>
    /\ checker["support"].pc = "sleep"
    /\ checker["support"].n = 0
    /\ Get(traders, "t1") = checker["support"].at
    /\ Discovered("t1") # {}

\* ------------------------------------- claims on the liquidatable traders
\* C32: every member of the set of liquidatable traders is a trader address
\* that a tradersChecked event listed (a provider answered true for it in a
\* pass) and that was not reported liquidated since; a step puts into the set
\* only traders, and only the ones the Checker forwards in that step.
C32_OnlyReportedTraders ==
    /\ [](\A x \in SeqSet(liquidatableTraders) :
            /\ x \in Traders
            /\ \E i \in Discovered(x) : \A j \in Liquidated(x) : j < i)
    /\ [][\A x \in SeqSet(liquidatableTraders') \ SeqSet(liquidatableTraders) :
            /\ x \in Traders
            /\ NewEvents # <<>>
            /\ NewEvents[1].type = "tradersChecked"
            /\ x \in SeqSet(NewEvents[1].traders)]_vars

\* in this step the liquidate call in flight returns
LiquidateReturns == liquidator.pc = "liquidating" /\ liquidator'.pc # "liquidating" /\ bot' = bot

\* the traders that events of this type report in this step, in order
NewlyReported(type, kind) ==
    LET RECURSIVE Collect(_)
        Collect(es) ==
            IF es = <<>> THEN <<>>
            ELSE (IF Head(es).type = type /\ Head(es).kind = kind
                  THEN Head(es).traders ELSE <<>>) \o Collect(Tail(es))
    IN Collect(NewEvents)

\* C33: when liquidate returns, the set loses exactly the traders of the
\* call that were liquidated and keeps its order: the traders whose attempt
\* failed and the traders added while the call was in flight are still in it;
\* unless the streams are destroyed, the same step reports every failure and
\* every success of the call, each trader of the call once, and nothing is
\* reported for a trader that was not in the call. During the pause and the
\* re-check only the step that resolves the re-check takes a failed trader
\* out of the set.
C33_OnlyLiquidatedRemoved ==
    /\ [][LiquidateReturns =>
            LET errored == liquidator'.failed
                liquidated == Without(liquidator.batch, SeqSet(errored))
            IN /\ SeqSet(errored) \subseteq SeqSet(liquidator.batch)
               /\ liquidatableTraders' =
                      Without(liquidatableTraders, SeqSet(liquidated))
               /\ SeqSet(errored) \subseteq SeqSet(liquidatableTraders')
               /\ SeqSet(liquidatableTraders) \ SeqSet(liquidator.batch)
                      \subseteq SeqSet(liquidatableTraders')
               /\ ~Destroyed =>
                      /\ NewlyReported("error", "LiquidationError") = errored
                      /\ NewlyReported("traderLiquidated", "") = liquidated
                      /\ Len(NewEvents) = Len(liquidator.batch)]_vars
    /\ [][liquidator.pc \in {"pause", "recheck"} /\ bot' = bot /\ ~Decides =>
            SeqSet(liquidator.failed) \subseteq SeqSet(liquidatableTraders')]_vars

\* C33 witness: the liquidation of "t1" failed; "t2", forwarded while the
\* call was in flight and never part of a call, is in the set behind "t1"
C33_Witness ==
    /\ liquidator.pc = "pause"
    /\ liquidator.failed = <<"t1">>
    /\ liquidatableTraders = <<"t1", "t2">>
    /\ LiquidationErrors("t1") # {}
    /\ LiquidationErrors("t2") = {}
    /\ Liquidated("t2") = {}
    /\ ~Destroyed

\* x was listed by a tradersChecked event after every report of a failed
\* liquidation of x: it was forwarded and not part of a returned call since
ForwardedSinceAttempt(x) ==
    \E i \in Discovered(x) : \A j \in LiquidationErrors(x) : j < i

\* C34: no forwarded trader is lost. Wherever the Liquidator's loop stands,
\* the step that reports a list as tradersChecked puts every trader of it
\* into the set and wakes the loop if it waits; and a trader that was
\* forwarded and not attempted since leaves the set only when a liquidate
\* call that holds it returns with its success, or when a re-check resolves
\* in which a provider answered false and none true for it.
C34_NoTraderLost ==
    [][/\ (NewEvents # <<>> /\ NewEvents[1].type = "tradersChecked") =>
             /\ SeqSet(NewEvents[1].traders) \subseteq SeqSet(liquidatableTraders')
             /\ liquidator.pc = "waiting" /\ liquidatableTraders' # <<>> =>
                    liquidator'.pc = "woken"
       /\ \A x \in Traders :
             (/\ x \in SeqSet(liquidatableTraders)
              /\ x \notin SeqSet(liquidatableTraders')
              /\ bot' = bot
              /\ ForwardedSinceAttempt(x)) =>
                 \/ LiquidateReturns /\ x \in SeqSet(liquidator.batch)
                 \/ Decides /\ x \in recheck'.no \ recheck'.yes]_vars

\* ----------------------------------------------------- claims on start()
\* the providers the session was configured with
Configured == {"primary"} \cup left.supportApis

\* C35: the processors of a session hold one filter per configured provider,
\* the primary and every support provider: each has its loop in the Checker,
\* and each is queried by a re-check of failed traders.
C35_FilterPerProvider ==
    /\ [](filters = Configured)
    /\ [](\A f \in Configured : checker[f].pc # "off")
    /\ [][StartCalled /\ bot'.last = "started" => filters' = Configured]_vars
    /\ [][liquidator.pc = "pause" /\ liquidator'.pc = "recheck" =>
            \A f \in Configured : recheck'.task[f].st = "query"]_vars

\* ------------------------------------------------ claims on CheckErrors
\* in this step the query in flight of filter f's pass fails
ChunkFails(f) ==
    /\ checker[f].pc = "query"
    /\ checker'[f] # checker[f]
    /\ left'.checkFail < left.checkFail

\* C36: when the chunk in flight of a pass fails, the Checker yields the
\* CheckError of that chunk and nothing else, and the traders are left as
\* they are: no key is added and no last-checked-at is changed. So every key
\* of the traders and every trader of a tradersChecked event is a trader
\* address, never a field of a CheckError.
C36_CheckErrorOnly ==
    /\ [][\A f \in filters : ChunkFails(f) =>
            /\ traders' = traders
            /\ ~Destroyed =>
                   checkerOut' =
                       Append(checkerOut,
                              [err |-> TRUE,
                               list |-> Chunk(checker[f].snap, checker[f].idx)])]_vars
    /\ [](SeqSet(KeysOf(traders)) \subseteq Traders)
    /\ [](\A i \in Checked : SeqSet(events[i].traders) \subseteq Traders)

\* --------------------------------------------- claims on the attempts
\* C37: the liquidate calls of a session come one after the other. A call
\* starts only at the head of the loop, never while a call is in flight or a
\* re-check is running; a call that returns with failures is followed by the
\* pause, which lasts the retry interval (configured in seconds, the timer
\* counts milliseconds); the pause is followed by the re-check of exactly
\* the failed traders, and the loop gets back to its head only in the step
\* that resolves the re-check and takes the traders found non-liquidatable
\* out of the set.
C37_OneAttemptAtATime ==
    /\ [][bot' = bot =>
            /\ liquidator.pc # "liquidating" /\ liquidator'.pc = "liquidating" =>
                  /\ liquidator.pc \in {"woken", "top"}
                  /\ recheck.st # "running"
            /\ liquidator.pc = "liquidating" => left'.liq = left.liq
            /\ LiquidateReturns /\ ~Destroyed /\ liquidator'.failed # <<>> =>
                  liquidator'.pc = "pause"
            /\ liquidator.pc = "pause" /\ liquidator'.pc # "pause" =>
                  /\ liquidator'.pc = "recheck"
                  /\ recheck'.st = "running"
                  /\ recheck'.traders = liquidator.failed
            /\ liquidator.pc = "recheck" /\ liquidator'.pc # "recheck" =>
                  /\ Decides
                  /\ liquidator'.pc \in {"top", "ended"}
                  /\ liquidatableTraders' =
                        Without(liquidatableTraders, recheck'.nonLiquidatableTraders)]_vars
    /\ [](liquidator.pc = "pause" => liquidator.delay = RetryIntervalSec * 1000)

\* ------------------------------------------- claims on the event order
\* the positions of the tradersFetched events that list x
Fetched(x) == Reported("tradersFetched", "", x)

\* C38: whatever a traderLiquidated event reports was listed by an earlier
\* tradersChecked event, and whatever a tradersChecked event lists was
\* listed by an earlier tradersFetched event.
C38_CausalOrder ==
    \A x \in Keys :
        /\ \A i \in Liquidated(x) : \E j \in Discovered(x) : j < i
        /\ \A i \in Discovered(x) : \E j \in Fetched(x) : j < i

\* ------------------------------------------- claims on the running flag
\* the latest call of the orchestrator was a join() or stop() that has settled
Settled == bot.last \in {"joinReturned", "joinRejected", "stopReturned", "stopRejected"}

\* C39: when a join() or stop() that awaited the session settles, whether
\* the pipeline ended by the abort or by an error, isRunning is unset; so
\* once such a call has settled and no other is pending, the orchestrator is
\* idle and a start() is accepted.
C39_IdleAfterSettled ==
    /\ [][AwaitEnds => ~IsRunning(bot'.isRunning)]_vars
    /\ [](Settled /\ bot.join = 0 /\ bot.stop = 0 =>
            /\ ~IsRunning(bot.isRunning)
            /\ left.start > 0 /\ ~Pending => ENABLED Start)

\* ------------------------------------- claims on the scope of the re-check
\* C40: a re-check covers the traders whose liquidation failed in the cycle
\* that makes it and nothing else. A re-check is made over the failed list of
\* the liquidate call just returned, and while the loop waits for it that list
\* is not empty; every query of its tasks, those still running after it has
\* resolved included, asks a configured provider about a non-empty chunk of
\* that list; a call that returns without failures issues no query and the
\* loop is back at its head in the same step; the step that resolves a
\* re-check removes only traders of the failed list; and from the return of
\* the call up to the next one no trader outside the failed list leaves the
\* set.
C40_RecheckOnlyFailed ==
    /\ [](liquidator.pc = "recheck" =>
            /\ recheck.traders = liquidator.failed
            /\ liquidator.failed # <<>>)
    /\ [](\A f \in Running(recheck) :
            /\ f \in filters
            /\ Chunk(recheck.traders, recheck.task[f].idx) # <<>>
            /\ SeqSet(Chunk(recheck.traders, recheck.task[f].idx))
                  \subseteq SeqSet(recheck.traders))
    /\ [][recheck'.traders # recheck.traders /\ bot' = bot =>
            recheck'.traders = liquidator'.failed]_vars
    /\ [][LiquidateReturns /\ ~Destroyed /\ liquidator'.failed = <<>> =>
            /\ Running(recheck') = {}
            /\ recheck'.traders = <<>>
            /\ left'.recheckFail = left.recheckFail
            /\ liquidator'.pc = "top"]_vars
    /\ [][Decides =>
            /\ SeqSet(liquidatableTraders) \ SeqSet(liquidatableTraders')
                  \subseteq SeqSet(liquidator.failed)
            /\ Without(liquidatableTraders', SeqSet(liquidator.failed)) =
                  Without(liquidatableTraders, SeqSet(liquidator.failed))]_vars
    /\ [][liquidator.pc \in {"pause", "recheck"} /\ bot' = bot =>
            \A x \in SeqSet(liquidatableTraders) \ SeqSet(liquidator.failed) :
                x \in SeqSet(liquidatableTraders')]_vars

\* C40 witness: the liquidation of "t1" failed while "t2" was forwarded and
\* not attempted; the re-check asked about "t1" only, the answer was false,
\* and the set holds "t2" alone
C40_Witness ==
    /\ Decided
    /\ recheck.traders = <<"t1">>
    /\ recheck.no = {"t1"}
    /\ recheck.yes = {}
    /\ liquidatableTraders = <<"t2">>
    /\ LiquidationErrors("t1") # {}
    /\ LiquidationErrors("t2") = {}
    /\ Liquidated("t2") = {}
    /\ ~Destroyed

====
